---- MODULE Spec2Model ----
(***************************************************************************)
(* Farmer agent engine of GEB: the growable agent store (geb/store.py),    *)
(* the field-to-agent index, agent removal and addition, the activation    *)
(* order, the water abstraction allocator, and the daily step of the crop  *)
(* farmers: harvest, plant and the yearly pass.                            *)
(*                                                                         *)
(* Floating point volumes and depths are modelled as exact fractions.      *)
(***************************************************************************)
EXTENDS Integers, Sequences, FiniteSets, TLC

(***************************************************************************)
(* Bounds of the model.                                                    *)
(***************************************************************************)
\* largest capacity (max_n) of a store array that is constructed
MaxCap == 2
\* largest element value held in a store array
MaxVal == 1
\* number of fields (hydrological response units) of the modelled region
NFields == 3
\* number of days of a model year
YearLength == 3
\* the last model year that is followed; the run starts in year 0
LastYear == 3

VARIABLES
    \* ---- StoreArray (geb/store.py) ----
    s_data,      \* StoreArray._data: the backing rows, Len = max_n
    s_n,         \* StoreArray._n
    s_cls,       \* class of the array: "StoreArray" or "AgentArray"
    s_err,       \* exception raised by the last store operation, or "none"
    s_op,        \* name of the last store operation
    s_pre,       \* [data, n] of the store before the last operation
    s_res,       \* what the last consumer operation returned
    s_twin,      \* what it returns when the rows >= n hold other values
    \* ---- update_field_indices_numba as a function of its input ----
    index_in,    \* land_owners handed to update_field_indices_numba
    index_out,   \* what it returned: [by_farmer, field_indices, oob], or <<>>
    \* ---- CropFarmers: the population and its fields ----
    n,                        \* CropFarmers.n (self.var._n)
    arrays_n,                 \* the n of every array in agent_arrays
    locations,                \* var.locations, backing rows (Len = max_n)
    elevation,                \* var.elevation, backing rows
    social_network,           \* var.social_network, backing rows of neighbours
    field_indices_by_farmer,  \* var.field_indices_by_farmer, backing rows
    field_indices,            \* var.field_indices
    land_owners,              \* HRU.var.land_owners, one entry per field
    crop_map,                 \* HRU.var.crop_map
    crop_age_days_map,        \* HRU.var.crop_age_days_map
    crop_harvest_age_days,    \* HRU.var.crop_harvest_age_days
    land_use_type,            \* HRU.var.land_use_type
    err,                      \* the exception that ended the run, or "none"
    fix_activation_order,     \* config agent_settings.fix_activation_order
    activation_order_by_elevation_fixed, \* the cached (n, order), or <<>>
    activation_order,         \* the order the property returned last
    twin_fixed,               \* the cache of a second run over the same inputs
    twin_order,               \* the order that second run was given
    f_op,                     \* the last population operation and its arguments
    f_pre,                    \* the population before that operation
    \* ---- water abstraction ----
    w_in,                     \* the arguments of the last abstraction run
    w_out,                    \* what that run returned and left in the pools
    w_twin,                   \* the same of a second run over the same inputs
    \* ---- attributes of the farmers the abstraction reads ----
    irrigation_source,              \* var.irrigation_source: "no", "canal", "well"
    well_depth,                     \* var.well_depth
    irrigation_limit_m3,            \* var.irrigation_limit_m3, NaN: no limit
    remaining_irrigation_limit_m3,  \* var.remaining_irrigation_limit_m3
    intention_factor,               \* var.intention_factor
    \* ---- the daily step ----
    current_time,                   \* model.current_time: [year, day_index]
    step_pc,                        \* where CropFarmers.step stands in the day
    crop_calendar,                  \* var.crop_calendar: per farmer its slots
    crop_calendar_rotation_years,   \* var.crop_calendar_rotation_years
    current_crop_calendar_rotation_year_index,
    all_loans_annual_cost,          \* var.all_loans_annual_cost: [input, well, total]
    loan_tracker,                   \* var.loan_tracker: [input, well]
    adapted,                        \* var.adapted[:, 1]: the farmer has a well
    time_adapted,                   \* var.time_adapted[:, 1]
    adapted_efficiency,             \* var.adapted[:, 2]: efficient irrigation
    time_adapted_efficiency,        \* var.time_adapted[:, 2]
    config,                         \* model.spinup and the farmers' rulesets
    yearly_pass                     \* the inputs and the trace of the last yearly pass

store_vars == <<s_data, s_n, s_cls, s_err, s_op, s_pre, s_res, s_twin>>

index_vars == <<index_in, index_out>>

farmer_vars == <<n, arrays_n, locations, elevation, social_network, field_indices_by_farmer,
                 field_indices, land_owners, crop_map, crop_age_days_map,
                 crop_harvest_age_days, land_use_type, err, f_op, f_pre>>

order_vars == <<fix_activation_order, activation_order_by_elevation_fixed,
                activation_order, twin_fixed, twin_order>>

water_vars == <<w_in, w_out, w_twin>>

attribute_vars == <<irrigation_source, well_depth, irrigation_limit_m3,
                    remaining_irrigation_limit_m3, intention_factor>>

day_vars == <<current_time, step_pc, crop_calendar, crop_calendar_rotation_years,
              current_crop_calendar_rotation_year_index, all_loans_annual_cost,
              loan_tracker, adapted, time_adapted, adapted_efficiency, time_adapted_efficiency, config, yearly_pass>>

vars == <<s_data, s_n, s_cls, s_err, s_op, s_pre, s_res, s_twin, index_in, index_out,
          n, arrays_n, locations, elevation, social_network, field_indices_by_farmer,
          field_indices, land_owners, crop_map, crop_age_days_map,
          crop_harvest_age_days, land_use_type, err, f_op, f_pre,
          fix_activation_order, activation_order_by_elevation_fixed,
          activation_order, twin_fixed, twin_order, w_in, w_out, w_twin,
          irrigation_source, well_depth, irrigation_limit_m3,
          remaining_irrigation_limit_m3, intention_factor, current_time, step_pc, crop_calendar,
          crop_calendar_rotation_years, current_crop_calendar_rotation_year_index,
          all_loans_annual_cost, loan_tracker, adapted, time_adapted, adapted_efficiency, time_adapted_efficiency, config, yearly_pass>>

(***************************************************************************)
(* Python helpers.                                                         *)
(***************************************************************************)
Min(a, b) == IF a <= b THEN a ELSE b

Max(a, b) == IF a >= b THEN a ELSE b

\* Python's normalisation of a slice bound against a length
PyBound(i, len) == IF i < 0 THEN Max(i + len, 0) ELSE Min(i, len)

\* seq[start:stop] with Python semantics (0-based bounds, negative bounds wrap)
PySlice(seq, start, stop) ==
    LET a == PyBound(start, Len(seq))
        b == PyBound(stop, Len(seq))
    IN  IF a >= b THEN <<>> ELSE SubSeq(seq, a + 1, b)

RECURSIVE SeqSum(_)
SeqSum(seq) == IF seq = <<>> THEN 0 ELSE Head(seq) + SeqSum(Tail(seq))

Vals == 0..MaxVal

\* all sequences over S of length len
SeqsOfLen(S, len) == [1..len -> S]

(***************************************************************************)
(* StoreArray                                                              *)
(***************************************************************************)
\* StoreArray.max_n: the number of backing rows
max_n(d) == Len(d)

\* StoreArray.data (getter): the logical window _data[:n]
data(d, count) == PySlice(d, 0, count)

\* StoreArray.data (setter): _data[: self.n] = value
data_set(d, count, value) ==
    [i \in 1..Len(d) |-> IF i <= Len(data(d, count)) THEN value[i] ELSE d[i]]

\* the same store with every row outside the logical window holding another value
Twin(d, count) ==
    [i \in 1..Len(d) |-> IF i <= Len(data(d, count)) THEN d[i] ELSE (d[i] + 1) % (MaxVal + 1)]

\* StoreArray.__init__(input_array=..., max_n=...)
StoreArray_init_input ==
    \E len \in 0..MaxCap, m \in 0..MaxCap :
      \E input_array \in SeqsOfLen(Vals, len) :
        /\ s_pre' = [data |-> s_data, n |-> s_n]
        /\ s_op' = "init_input"
        /\ s_cls' = IF m # 0 /\ len > m THEN s_cls ELSE "StoreArray"
        /\ s_res' = <<>>
        /\ s_twin' = <<>>
        /\ IF m # 0
           THEN IF len > m
                THEN \* _data[:n] = input_array cannot broadcast: no object
                     /\ s_err' = "ValueError"
                     /\ UNCHANGED <<s_data, s_n>>
                ELSE \E empty \in SeqsOfLen(Vals, m) :
                       /\ s_data' = [i \in 1..m |->
                                       IF i <= len THEN input_array[i] ELSE empty[i]]
                       /\ s_n' = len
                       /\ s_err' = "none"
           ELSE /\ s_data' = input_array
                /\ s_n' = len
                /\ s_err' = "none"

\* StoreArray.__init__(dtype=..., n=..., max_n=..., fill_value=...)
StoreArray_init_dtype ==
    \E count \in 0..(MaxCap + 1), m \in 0..MaxCap, fill_value \in Vals \cup {-1} :
      \E empty \in SeqsOfLen(Vals, m) :
        /\ s_pre' = [data |-> s_data, n |-> s_n]
        /\ s_op' = "init_dtype"
        /\ s_cls' = "StoreArray"
        /\ s_res' = <<>>
        /\ s_twin' = <<>>
        /\ s_data' = IF fill_value # -1 THEN [i \in 1..m |-> fill_value] ELSE empty
        /\ s_n' = count
        /\ s_err' = "none"

\* StoreArray.n (setter)
n_setter ==
    \E value \in (-1)..(MaxCap + 1) :
        /\ s_pre' = [data |-> s_data, n |-> s_n]
        /\ s_cls = "StoreArray"
        /\ s_op' = "n_setter"
        /\ UNCHANGED s_cls
        /\ s_res' = <<>>
        /\ s_twin' = <<>>
        /\ IF value > max_n(s_data)
           THEN /\ s_err' = "ValueError"
                /\ UNCHANGED <<s_data, s_n>>
           ELSE /\ s_n' = value
                /\ s_err' = "none"
                /\ UNCHANGED s_data

\* the value a consumer operation returns on backing rows d with count n
getitem_value(d, count, key) ==
    LET view == data(d, count)
        k == IF key < 0 THEN key + Len(view) ELSE key
    IN  <<view[k + 1]>>

\* StoreArray.__getitem__(key) for an integer key
getitem ==
    \E key \in (-MaxCap)..(MaxCap - 1) :
        /\ s_pre' = [data |-> s_data, n |-> s_n]
        /\ s_op' = "getitem"
        /\ s_cls = "StoreArray"
        /\ UNCHANGED s_cls
        /\ UNCHANGED <<s_data, s_n>>
        /\ LET len == Len(data(s_data, s_n))
           IN  IF key >= len \/ key < -len
               THEN /\ s_err' = "IndexError"
                    /\ s_res' = <<>>
                    /\ s_twin' = <<>>
               ELSE /\ s_err' = "none"
                    /\ s_res' = getitem_value(s_data, s_n, key)
                    /\ s_twin' = getitem_value(Twin(s_data, s_n), s_n, key)

\* StoreArray.__setitem__(key, value) for an integer key
setitem ==
    \E key \in (-MaxCap)..(MaxCap - 1), value \in Vals :
        /\ s_pre' = [data |-> s_data, n |-> s_n]
        /\ s_op' = "setitem"
        /\ s_cls = "StoreArray"
        /\ UNCHANGED s_cls
        /\ s_res' = <<>>
        /\ s_twin' = <<>>
        /\ UNCHANGED s_n
        /\ LET len == Len(data(s_data, s_n))
               k == IF key < 0 THEN key + len ELSE key
           IN  IF key >= len \/ key < -len
               THEN /\ s_err' = "IndexError"
                    /\ UNCHANGED s_data
               ELSE /\ s_err' = "none"
                    /\ s_data' = [s_data EXCEPT ![k + 1] = value]

\* the rows fn(other) computes from the logical window: data.__add__(other)
add_rows(d, count, other) == [i \in 1..Len(data(d, count)) |-> data(d, count)[i] + other]

\* StoreArray._perform_operation(other, "__add__", inplace=True): __iadd__
perform_operation_inplace ==
    \E other \in Vals :
        /\ \A i \in 1..Len(data(s_data, s_n)) : s_data[i] + other <= MaxVal
        /\ s_pre' = [data |-> s_data, n |-> s_n]
        /\ s_op' = "iadd"
        /\ s_cls = "StoreArray"
        /\ UNCHANGED s_cls
        /\ s_err' = "none"
        /\ s_data' = data_set(s_data, s_n, add_rows(s_data, s_n, other))
        /\ UNCHANGED s_n
        /\ s_res' = data(s_data', s_n)
        /\ s_twin' = data(data_set(Twin(s_data, s_n), s_n,
                                   add_rows(Twin(s_data, s_n), s_n, other)), s_n)

\* StoreArray._perform_operation(other, "__add__"): __add__, a new StoreArray
\* of the same capacity whose logical window is the result
perform_operation ==
    \E other \in Vals :
        /\ s_pre' = [data |-> s_data, n |-> s_n]
        /\ s_op' = "add"
        /\ s_cls = "StoreArray"
        /\ UNCHANGED s_cls
        /\ s_err' = "none"
        /\ UNCHANGED <<s_data, s_n>>
        /\ s_res' = add_rows(s_data, s_n, other)
        /\ s_twin' = add_rows(Twin(s_data, s_n), s_n, other)

\* data.__gt__(value) on the logical window
compare_rows(d, count, value) ==
    [i \in 1..Len(data(d, count)) |-> IF data(d, count)[i] > value THEN 1 ELSE 0]

\* StoreArray._compare(value, "__gt__") with a scalar
compare ==
    \E value \in Vals :
        /\ s_pre' = [data |-> s_data, n |-> s_n]
        /\ s_op' = "compare"
        /\ s_cls = "StoreArray"
        /\ UNCHANGED s_cls
        /\ s_err' = "none"
        /\ UNCHANGED <<s_data, s_n>>
        /\ s_res' = compare_rows(s_data, s_n, value)
        /\ s_twin' = compare_rows(Twin(s_data, s_n), s_n, value)

\* StoreArray.__array_ufunc__(np.add, "reduce", self): the inputs are
\* replaced by their .data
array_ufunc_reduce ==
    /\ s_pre' = [data |-> s_data, n |-> s_n]
    /\ s_op' = "reduce"
    /\ s_cls = "StoreArray"
    /\ UNCHANGED s_cls
    /\ s_err' = "none"
    /\ UNCHANGED <<s_data, s_n>>
    /\ s_res' = <<SeqSum(data(s_data, s_n))>>
    /\ s_twin' = <<SeqSum(data(Twin(s_data, s_n), s_n))>>

\* the rows StoreArray.__array__ hands out: np.asarray(self._data)
array_rows(d, count) == d

\* StoreArray.__array__(): conversion to a plain array
array ==
    /\ s_pre' = [data |-> s_data, n |-> s_n]
    /\ s_op' = "array"
    /\ s_cls = "StoreArray"
    /\ UNCHANGED s_cls
    /\ s_err' = "none"
    /\ UNCHANGED <<s_data, s_n>>
    /\ s_res' = array_rows(s_data, s_n)
    /\ s_twin' = array_rows(Twin(s_data, s_n), s_n)

(***************************************************************************)
(* AgentArray (geb/agents/__init__.py), the ndarray-based predecessor      *)
(***************************************************************************)
\* AgentArray.max_size: the size of the whole backing array
max_size(d) == Len(d)

\* AgentArray.__new__(input_array, n=..., max_size=...); -1 stands for None
AgentArray_new ==
    \E len \in 0..MaxCap, count \in (-1)..(MaxCap + 1), m \in (-1)..MaxCap :
      \E input_array \in SeqsOfLen(Vals, len), empty \in SeqsOfLen(Vals, Max(m, 0)) :
        /\ s_pre' = [data |-> s_data, n |-> s_n]
        /\ s_op' = "AgentArray_new"
        /\ s_res' = <<>>
        /\ s_twin' = <<>>
        /\ IF (count = -1 /\ m = -1) \/ (count # -1 /\ m # -1)
           THEN /\ s_err' = "ValueError"
                /\ UNCHANGED <<s_data, s_n, s_cls>>
           ELSE IF m > 0
           THEN IF len > m
                THEN \* obj[:n] = input_array cannot broadcast
                     /\ s_err' = "ValueError"
                     /\ UNCHANGED <<s_data, s_n, s_cls>>
                ELSE /\ s_data' = [i \in 1..m |->
                                     IF i <= len THEN input_array[i] ELSE empty[i]]
                     /\ s_n' = len
                     /\ s_cls' = "AgentArray"
                     /\ s_err' = "none"
           ELSE IF count > 0
           THEN /\ s_data' = input_array
                /\ s_n' = count
                /\ s_cls' = "AgentArray"
                /\ s_err' = "none"
           ELSE \* neither branch binds obj
                /\ s_err' = "UnboundLocalError"
                /\ UNCHANGED <<s_data, s_n, s_cls>>

\* AgentArray.n (setter)
AgentArray_n_setter ==
    \E value \in (-1)..(MaxCap + 1) :
        /\ s_cls = "AgentArray"
        /\ s_pre' = [data |-> s_data, n |-> s_n]
        /\ s_op' = "n_setter"
        /\ s_res' = <<>>
        /\ s_twin' = <<>>
        /\ UNCHANGED <<s_data, s_cls>>
        /\ IF value > max_size(s_data)
           THEN /\ s_err' = "ValueError"
                /\ UNCHANGED s_n
           ELSE /\ s_n' = value
                /\ s_err' = "none"

\* StoreArray(dtype=..., n=0, max_n=MaxCap, fill_value=0)
StoreIdle ==
    /\ s_data = [i \in 1..MaxCap |-> 0]
    /\ s_n = 0
    /\ s_cls = "StoreArray"
    /\ s_err = "none"
    /\ s_op = "init_dtype"
    /\ s_pre = [data |-> <<>>, n |-> 0]
    /\ s_res = <<>>
    /\ s_twin = <<>>

(***************************************************************************)
(* Field-to-agent index                                                    *)
(***************************************************************************)
Fields == 0..(NFields - 1)

\* seq[i] for a 0-based index i
At(seq, i) == seq[i + 1]

\* np.argsort(land_owners): the field ids ordered by owner; fields of one
\* owner are kept in index order
argsort(owners_of_fields) ==
    LET k == Len(owners_of_fields)
        key(pos) == owners_of_fields[pos] * k + pos
        perm == CHOOSE q \in Permutations(1..k) :
                    \A i \in 1..(k - 1) : key(q[i]) < key(q[i + 1])
    IN  [i \in 1..k |-> perm[i] - 1]

\* the loop of update_field_indices_numba from position i (0-based) on;
\* acc = [by_farmer, field_indices, oob]
RECURSIVE update_field_indices_loop(_, _, _, _, _, _)
update_field_indices_loop(i, owners_of_fields, sort_idx, last_not_owned, prev_land_owner, acc) ==
    IF i >= Len(owners_of_fields) THEN acc
    ELSE LET field == At(sort_idx, i)
             land_owner == At(owners_of_fields, field)
         IN  IF land_owner # -1
             THEN IF land_owner >= Len(acc.by_farmer)
                  THEN \* a write outside field_indices_by_farmer
                       [acc EXCEPT !.oob = TRUE]
                  ELSE update_field_indices_loop(
                         i + 1, owners_of_fields, sort_idx, last_not_owned, land_owner,
                         [acc EXCEPT
                            !.by_farmer[land_owner + 1] =
                                <<IF land_owner # prev_land_owner
                                  THEN i - last_not_owned ELSE @[1],
                                  i + 1 - last_not_owned>>,
                            !.field_indices[i - last_not_owned + 1] = field])
             ELSE update_field_indices_loop(
                    i + 1, owners_of_fields, sort_idx, last_not_owned, prev_land_owner, acc)

\* CropFarmers.update_field_indices_numba(land_owners)
update_field_indices_numba(owners_of_fields) ==
    LET size == Len(owners_of_fields)
        agents == {owners_of_fields[i] : i \in 1..size}
        n_agents == IF -1 \in agents THEN Cardinality(agents) - 1
                    ELSE Cardinality(agents)
        \* np.searchsorted(land_owners_sorted, -1, side="right")
        last_not_owned == Cardinality({i \in 1..size : owners_of_fields[i] <= -1})
        acc == update_field_indices_loop(
                 last_not_owned, owners_of_fields, argsort(owners_of_fields), last_not_owned, -1,
                 [by_farmer |-> [a \in 1..n_agents |-> <<-1, -1>>],
                  field_indices |-> [k \in 1..size |-> -1],
                  oob |-> FALSE])
    IN  [by_farmer |-> acc.by_farmer,
         \* field_indices[:-last_not_owned]
         field_indices |-> PySlice(acc.field_indices, 0, -last_not_owned),
         oob |-> acc.oob]

\* get_farmer_HRUs(field_indices, field_indices_by_farmer, farmer_index);
\* a negative farmer_index counts from the last row
get_farmer_HRUs(indices, index_rows, farmer_index) ==
    LET row == IF farmer_index < 0
               THEN farmer_index + Len(index_rows) ELSE farmer_index
    IN  PySlice(indices, At(index_rows, row)[1],
                At(index_rows, row)[2])

\* the owner arrays the program can hold: the owners are the agents 0..k-1,
\* each owning at least one field, in any order; -1 marks an unowned field
OwnerArrays(size) ==
    {lo \in [1..size -> (-1)..(size - 1)] :
        LET owners == {lo[i] : i \in 1..size} \ {-1}
        IN  owners = 0..(Cardinality(owners) - 1)}

IndexIdle ==
    /\ index_in = <<>>
    /\ index_out = <<>>

\* a call of update_field_indices_numba on one owner array
IndexCall ==
    \E size \in 1..(NFields + 1) : \E lo \in OwnerArrays(size) :
        /\ index_in' = lo
        /\ index_out' = update_field_indices_numba(lo)

(***************************************************************************)
(* CropFarmers: removing and adding agents                                 *)
(***************************************************************************)
\* land cover classes (hydrology.landcover)
GRASSLAND_LIKE == 1

NON_PADDY_IRRIGATED == 3

\* the elevations an agent can have
Elevations == {1, 2}

\* the elements of a sequence
Range(seq) == {seq[i] : i \in 1..Len(seq)}

\* AgentBaseClass.get_max_n: int(n * (1 + redundancy) + 1) with redundancy 0.1
get_max_n(count) == count + count \div 10 + 1

\* the population and its fields as one value
Farmers ==
    [n |-> n, arrays_n |-> arrays_n, locations |-> locations,
     elevation |-> elevation, social_network |-> social_network,
     field_indices_by_farmer |-> field_indices_by_farmer,
     field_indices |-> field_indices, land_owners |-> land_owners,
     crop_map |-> crop_map, crop_age_days_map |-> crop_age_days_map,
     crop_harvest_age_days |-> crop_harvest_age_days,
     land_use_type |-> land_use_type, err |-> err]

SetFarmers(st) ==
    /\ n' = st.n
    /\ arrays_n' = st.arrays_n
    /\ locations' = st.locations
    /\ elevation' = st.elevation
    /\ social_network' = st.social_network
    /\ field_indices_by_farmer' = st.field_indices_by_farmer
    /\ field_indices' = st.field_indices
    /\ land_owners' = st.land_owners
    /\ crop_map' = st.crop_map
    /\ crop_age_days_map' = st.crop_age_days_map
    /\ crop_harvest_age_days' = st.crop_harvest_age_days
    /\ land_use_type' = st.land_use_type
    /\ err' = st.err

\* CropFarmers.update_field_indices: the tuple assignment
\* field_indices_by_farmer[:], field_indices = update_field_indices_numba(...)
update_field_indices(st) ==
    LET r == update_field_indices_numba(st.land_owners)
        rows == Len(data(st.field_indices_by_farmer, st.arrays_n))
    IN  IF r.oob THEN [st EXCEPT !.err = "IndexError"]
        ELSE IF Len(r.by_farmer) = rows
        THEN [st EXCEPT
                !.field_indices_by_farmer = data_set(@, st.arrays_n, r.by_farmer),
                !.field_indices = r.field_indices]
        ELSE IF Len(r.by_farmer) = 1
        THEN \* one row broadcasts over all rows
             [st EXCEPT
                !.field_indices_by_farmer =
                    data_set(@, st.arrays_n, [i \in 1..rows |-> r.by_farmer[1]]),
                !.field_indices = r.field_indices]
        ELSE \* could not broadcast input array
             [st EXCEPT !.err = "ValueError"]

\* seq with value v at the fields listed in HRUs
SetFields(seq, HRUs, v) ==
    [f \in 1..Len(seq) |-> IF (f - 1) \in Range(HRUs) THEN v ELSE seq[f]]

\* remove_agent up to and including update_field_indices
remove_agent_mutate(st, farmer_idx, new_land_use_type) ==
    LET rows == data(st.field_indices_by_farmer, st.arrays_n)
        last_farmer_HRUs == get_farmer_HRUs(st.field_indices, rows, -1)
        HRUs_farmer_to_be_removed == get_farmer_HRUs(st.field_indices, rows, farmer_idx)
        \* position of agent_array[-1]
        last == Len(data(st.locations, st.arrays_n))
        s1 == [st EXCEPT
                 !.land_owners = SetFields(@, HRUs_farmer_to_be_removed, -1),
                 !.crop_map = SetFields(@, HRUs_farmer_to_be_removed, -1),
                 !.crop_age_days_map = SetFields(@, HRUs_farmer_to_be_removed, -1),
                 !.crop_harvest_age_days = SetFields(@, HRUs_farmer_to_be_removed, -1),
                 !.land_use_type =
                     SetFields(@, HRUs_farmer_to_be_removed, new_land_use_type),
                 !.n = st.n - 1]
        s2 == IF s1.n # farmer_idx
              THEN [s1 EXCEPT
                      !.locations[farmer_idx + 1] = st.locations[last],
                      !.elevation[farmer_idx + 1] = st.elevation[last],
                      !.social_network[farmer_idx + 1] = st.social_network[last],
                      !.field_indices_by_farmer[farmer_idx + 1] =
                          st.field_indices_by_farmer[last],
                      !.arrays_n = s1.n,
                      !.land_owners = SetFields(@, last_farmer_HRUs, farmer_idx)]
              ELSE [s1 EXCEPT !.arrays_n = s1.n]
    IN  update_field_indices(s2)

\* CropFarmers.remove_agent(farmer_idx, land_use_type); bc: the numba build
\* checks array bounds (NUMBA_BOUNDSCHECK)
remove_agent(st, farmer_idx, new_land_use_type, bc) ==
    IF ~(farmer_idx >= 0 /\ farmer_idx < st.n) THEN [st EXCEPT !.err = "AssertionError"]
    ELSE
    LET rows == data(st.field_indices_by_farmer, st.arrays_n)
        last_farmer_HRUs == get_farmer_HRUs(st.field_indices, rows, -1)
        HRUs_farmer_to_be_removed == get_farmer_HRUs(st.field_indices, rows, farmer_idx)
        s3 == remove_agent_mutate(st, farmer_idx, new_land_use_type)
        rows3 == data(s3.field_indices_by_farmer, s3.arrays_n)
    IN  IF s3.err # "none" THEN s3
        ELSE IF s3.n = farmer_idx
        THEN \* row farmer_idx lies behind the n rows handed to get_farmer_HRUs
             IF bc THEN [s3 EXCEPT !.err = "IndexError"]
             ELSE IF get_farmer_HRUs(s3.field_indices, s3.field_indices_by_farmer,
                                     farmer_idx) = <<>>
                  THEN s3 ELSE [s3 EXCEPT !.err = "AssertionError"]
        ELSE IF Range(last_farmer_HRUs)
                  # Range(get_farmer_HRUs(s3.field_indices, rows3, farmer_idx))
        THEN [s3 EXCEPT !.err = "AssertionError"]
        ELSE IF \E f \in Range(HRUs_farmer_to_be_removed) : At(s3.land_owners, f) # -1
        THEN [s3 EXCEPT !.err = "AssertionError"]
        ELSE s3

\* the loop of remove_agents over the indices, largest first
RECURSIVE remove_agents_loop(_, _, _, _)
remove_agents_loop(st, farmer_indices, new_land_use_type, bc) ==
    IF farmer_indices = {} \/ st.err # "none" THEN st
    ELSE LET idx == CHOOSE i \in farmer_indices : \A j \in farmer_indices : j <= i
         IN  remove_agents_loop(remove_agent(st, idx, new_land_use_type, bc),
                                farmer_indices \ {idx}, new_land_use_type, bc)

\* CropFarmers.remove_agents(farmer_indices, land_use_type)
remove_agents(st, farmer_indices, new_land_use_type, bc) ==
    IF farmer_indices = {}
    THEN \* HRUs_with_removed_farmers is never bound
         [st EXCEPT !.err = "UnboundLocalError"]
    ELSE remove_agents_loop(st, farmer_indices, new_land_use_type, bc)

\* CropFarmers.add_agent on the unowned field HRU; the location of the new
\* agent is that of the field, its elevation is sampled there
add_agent(st, HRU, new_elevation, values) ==
    IF At(st.land_owners, HRU) # -1 THEN [st EXCEPT !.err = "AssertionError"]
    ELSE
    LET s1 == [st EXCEPT !.land_owners[HRU + 1] = st.n, !.n = st.n + 1]
    IN  IF st.arrays_n + 1 > max_n(st.locations)
        THEN \* agent_array.n += 1: n cannot exceed max_n
             [s1 EXCEPT !.err = "ValueError"]
        ELSE update_field_indices(
               [s1 EXCEPT !.arrays_n = st.arrays_n + 1,
                          !.locations[s1.n] = HRU,
                          !.elevation[s1.n] = new_elevation,
                          !.social_network[s1.n] = values.social_network])

remove_agent_call ==
    /\ err = "none"
    /\ \E farmer_idx \in 0..(n - 1), bc \in BOOLEAN :
         /\ f_op' = [name |-> "remove_agent", idx |-> farmer_idx]
         /\ f_pre' = Farmers
         /\ SetFarmers(remove_agent(Farmers, farmer_idx, GRASSLAND_LIKE, bc))

remove_agents_call ==
    /\ err = "none"
    /\ \E farmer_indices \in SUBSET (0..(n - 1)), bc \in BOOLEAN :
         /\ Cardinality(farmer_indices) # 1
         /\ f_op' = [name |-> "remove_agents", idx |-> farmer_indices]
         /\ f_pre' = Farmers
         /\ SetFarmers(remove_agents(Farmers, farmer_indices, GRASSLAND_LIKE, bc))

add_agent_call ==
    /\ err = "none"
    /\ \E HRU \in Fields, new_elevation \in Elevations,
          neighbour \in {-1} \cup (IF n > 0 THEN {0} ELSE {}) :
         /\ At(land_owners, HRU) = -1
         /\ f_op' = [name |-> "add_agent", idx |-> HRU]
         /\ f_pre' = Farmers
         /\ SetFarmers(add_agent(Farmers, HRU, new_elevation,
                                 [social_network |-> <<neighbour>>]))

\* find_neighbors for one neighbour per farmer: the index of the nearest
\* other farmer, the lower index among equally near ones, -1 if there is none
find_neighbors(locs, count) ==
    LET distance(i, j) == IF locs[i] >= locs[j] THEN locs[i] - locs[j]
                          ELSE locs[j] - locs[i]
        others(i) == (1..count) \ {i}
    IN  [i \in 1..Len(locs) |->
           IF i > count \/ others(i) = {} THEN <<-1>>
           ELSE <<(CHOOSE j \in others(i) :
                     \A k \in others(i) :
                        \/ distance(i, j) < distance(i, k)
                        \/ distance(i, j) = distance(i, k) /\ j <= k) - 1>>]

\* CropFarmers.spinup: the agents are the owners found in the farms raster,
\* every array is allocated with max_n rows, the index is built; the
\* fields are fallow (crop_map, crop_age_days_map, crop_harvest_age_days = -1)
\* or, if planted, one day into a crop of two days
InitPopulation(layouts, elevations, planted) ==
    \E lo \in layouts :
      LET n0 == Cardinality(Range(lo) \ {-1})
          cap == get_max_n(n0)
      IN  /\ n0 >= 1
          /\ \E elev \in [1..n0 -> elevations] :
               LET locs == [i \in 1..cap |->
                               IF i <= n0
                               THEN CHOOSE f \in Fields :
                                      /\ At(lo, f) = i - 1
                                      /\ \A g \in Fields : At(lo, g) = i - 1 => f <= g
                               ELSE -1]
                   st0 == [n |-> n0, arrays_n |-> n0,
                           locations |-> locs,
                           social_network |-> find_neighbors(locs, n0),
                           elevation |-> [i \in 1..cap |-> IF i <= n0 THEN elev[i] ELSE 0],
                           field_indices_by_farmer |-> [i \in 1..cap |-> <<-1, -1>>],
                           field_indices |-> <<>>,
                           land_owners |-> lo,
                           crop_map |->
                               [f \in 1..NFields |-> IF planted /\ lo[f] # -1 THEN 0 ELSE -1],
                           crop_age_days_map |->
                               [f \in 1..NFields |-> IF planted /\ lo[f] # -1 THEN 1 ELSE -1],
                           crop_harvest_age_days |->
                               [f \in 1..NFields |-> IF planted /\ lo[f] # -1 THEN 2 ELSE -1],
                           land_use_type |->
                               [f \in 1..NFields |->
                                  IF planted /\ lo[f] # -1
                                  THEN NON_PADDY_IRRIGATED ELSE GRASSLAND_LIKE],
                           err |-> "none"]
                   st == update_field_indices(st0)
               IN  /\ n = st.n
                   /\ arrays_n = st.arrays_n
                   /\ locations = st.locations
                   /\ elevation = st.elevation
                   /\ social_network = st.social_network
                   /\ field_indices_by_farmer = st.field_indices_by_farmer
                   /\ field_indices = st.field_indices
                   /\ land_owners = st.land_owners
                   /\ crop_map = st.crop_map
                   /\ crop_age_days_map = st.crop_age_days_map
                   /\ crop_harvest_age_days = st.crop_harvest_age_days
                   /\ land_use_type = st.land_use_type
                   /\ err = st.err
          /\ f_op = [name |-> "spinup", idx |-> -1]
          /\ f_pre = <<>>

InitFarmers == InitPopulation(OwnerArrays(NFields), Elevations, TRUE)

FarmersIdle ==
    /\ n = 0
    /\ arrays_n = 0
    /\ locations = <<>>
    /\ elevation = <<>>
    /\ social_network = <<>>
    /\ field_indices_by_farmer = <<>>
    /\ field_indices = <<>>
    /\ land_owners = <<>>
    /\ crop_map = <<>>
    /\ crop_age_days_map = <<>>
    /\ crop_harvest_age_days = <<>>
    /\ land_use_type = <<>>
    /\ err = "none"
    /\ f_op = [name |-> "none", idx |-> -1]
    /\ f_pre = <<>>

(***************************************************************************)
(* Activation order                                                        *)
(***************************************************************************)
\* a permutation drawn without the fixed seed, whatever the mode
unseeded_permutations(fixed, size) ==
    {[i \in 1..size |-> q[i] - 1] : q \in Permutations(1..size)}

\* np.random.seed(42); np.random.permutation(size): one fixed permutation of
\* 0..size-1 for every size
seeded_permutation(size) == [i \in 1..size |-> size - i]

\* the permutations np.random.permutation(size) can return
random_permutations(fixed, size) ==
    IF fixed THEN {seeded_permutation(size)}
    ELSE {[i \in 1..size |-> q[i] - 1] : q \in Permutations(1..size)}

\* the order computed from the elevations and the permutation p drawn
sort_by_elevation(elev, p) ==
    LET size == Len(elev)
        elevation_shuffled == [i \in 1..size |-> At(elev, p[i])]
        \* np.argsort(elevation_shuffled, kind="stable")[::-1]
        ascending == argsort(elevation_shuffled)
        activation_order_shuffled == [i \in 1..size |-> ascending[size + 1 - i]]
    IN  [i \in 1..size |-> At(p, activation_order_shuffled[i])]

\* CropFarmers.activation_order_by_elevation, with the permutation p that
\* np.random.permutation returns: [order, fixed (the cache), err]
activation_order_by_elevation(fixed, cache, count, elev, p) ==
    IF fixed /\ cache # <<>> /\ cache[1] = count
    THEN [order |-> cache[2], fixed |-> cache, err |-> "none"]
    ELSE LET order == sort_by_elevation(elev, p)
         IN  [order |-> order,
              fixed |-> IF fixed THEN <<count, order>> ELSE cache,
              \* assert np.diff(elevation[activation_order]).max() <= 0
              err |-> IF Len(order) <= 1 THEN "ValueError"
                      ELSE IF \E i \in 1..(Len(order) - 1) :
                                At(elev, order[i]) < At(elev, order[i + 1])
                           THEN "AssertionError" ELSE "none"]

\* a read of the property; a second run over the same inputs draws its own
\* permutation
activation_order_read ==
    /\ err = "none"
    /\ LET elev == data(elevation, arrays_n)
       IN  \E p \in random_permutations(fix_activation_order, Len(elev)),
              q \in random_permutations(fix_activation_order, Len(elev)) :
             LET r == activation_order_by_elevation(
                        fix_activation_order, activation_order_by_elevation_fixed,
                        n, elev, p)
                 t == activation_order_by_elevation(
                        fix_activation_order, twin_fixed, n, elev, q)
             IN  /\ activation_order' = r.order
                 /\ activation_order_by_elevation_fixed' = r.fixed
                 /\ twin_order' = t.order
                 /\ twin_fixed' = t.fixed
                 /\ err' = r.err
                 /\ f_op' = [name |-> "activation_order", idx |-> -1]
    /\ UNCHANGED <<n, arrays_n, locations, elevation, social_network, field_indices_by_farmer,
                   field_indices, land_owners, crop_map, crop_age_days_map,
                   crop_harvest_age_days, land_use_type, f_pre,
                   fix_activation_order>>

InitOrder ==
    /\ fix_activation_order \in BOOLEAN
    /\ activation_order_by_elevation_fixed = <<>>
    /\ activation_order = <<>>
    /\ twin_fixed = <<>>
    /\ twin_order = <<>>

OrderIdle ==
    /\ fix_activation_order = FALSE
    /\ activation_order_by_elevation_fixed = <<>>
    /\ activation_order = <<>>
    /\ twin_fixed = <<>>
    /\ twin_order = <<>>

(***************************************************************************)
(* Water abstraction: numbers                                              *)
(***************************************************************************)
\* float values are held as exact fractions <<numerator, denominator>> in
\* lowest terms with a positive denominator
RECURSIVE GCD(_, _)
GCD(a, b) == IF b = 0 THEN a ELSE GCD(b, a % b)

Abs(a) == IF a < 0 THEN -a ELSE a

Frac(num, den) ==
    LET g == GCD(Abs(num), Abs(den))
        s == IF den < 0 THEN -1 ELSE 1
    IN  <<(s * num) \div g, (s * den) \div g>>

R(k) == <<k, 1>>

\* np.nan
NaN == <<0, 0>>

RAdd(x, y) == Frac(x[1] * y[2] + y[1] * x[2], x[2] * y[2])

RSub(x, y) == Frac(x[1] * y[2] - y[1] * x[2], x[2] * y[2])

RMul(x, y) == Frac(x[1] * y[1], x[2] * y[2])

RDiv(x, y) == Frac(x[1] * y[2], x[2] * y[1])

RLess(x, y) == x[1] * y[2] < y[1] * x[2]

RMin(x, y) == IF RLess(y, x) THEN y ELSE x

RMax(x, y) == IF RLess(x, y) THEN y ELSE x

\* the sum of a sequence of fractions
RECURSIVE RSum(_)
RSum(seq) == IF seq = <<>> THEN R(0) ELSE RAdd(Head(seq), RSum(Tail(seq)))

\* statement sequencing: rest applied to the value of first, which is
\* computed once
Then(first, rest(_)) == CHOOSE result \in {rest(x) : x \in {first}} : TRUE

(***************************************************************************)
(* Water abstraction: the three sources                                    *)
(***************************************************************************)
\* The arrays a run works on are held in one record acc; acc.demand is
\* irrigation_water_demand_field, the value each withdraw_* returns.

\* one withdrawal as the run's history keeps it: the source, the farmer, the
\* field, the pool drawn from (grid cell or command area), the volume taken
\* and what the pool held afterwards
Withdrawal(source, farmer, field, pool, m3, storage) ==
    [source |-> source, farmer |-> farmer, field |-> field, pool |-> pool,
     m3 |-> m3, storage |-> storage]

\* a channel withdrawal that ignores that the storage can be below the reserve
withdraw_channel_below_reserve(acc, cell_area, grid_cell, field, farmer, minimum_channel_storage_m3) ==
    LET channel_abstraction_cell_m3 ==
            RMin(RSub(At(acc.available_channel_storage_m3, grid_cell),
                      minimum_channel_storage_m3),
                 RMul(acc.demand, At(cell_area, field)))
        channel_abstraction_cell_m == RDiv(channel_abstraction_cell_m3, At(cell_area, field))
    IN  [acc EXCEPT
            !.available_channel_storage_m3[grid_cell + 1] =
                RSub(@, channel_abstraction_cell_m3),
            !.water_withdrawal_m[field + 1] = RAdd(@, channel_abstraction_cell_m),
            !.channel_abstraction_m3_by_farmer[farmer + 1] =
                RAdd(@, channel_abstraction_cell_m3),
            !.withdrawals =
                Append(@, Withdrawal("channel", farmer, field, grid_cell, channel_abstraction_cell_m3,
                                     RSub(At(acc.available_channel_storage_m3, grid_cell),
                                          channel_abstraction_cell_m3))),
            !.demand = RSub(@, channel_abstraction_cell_m)]

\* a channel withdrawal that leaves no reserve in the channel
withdraw_channel_to_empty(acc, cell_area, grid_cell, field, farmer, minimum_channel_storage_m3) ==
    LET channel_abstraction_cell_m3 ==
            RMin(At(acc.available_channel_storage_m3, grid_cell),
                 RMul(acc.demand, At(cell_area, field)))
        channel_abstraction_cell_m == RDiv(channel_abstraction_cell_m3, At(cell_area, field))
    IN  [acc EXCEPT
            !.available_channel_storage_m3[grid_cell + 1] =
                RSub(@, channel_abstraction_cell_m3),
            !.water_withdrawal_m[field + 1] = RAdd(@, channel_abstraction_cell_m),
            !.channel_abstraction_m3_by_farmer[farmer + 1] =
                RAdd(@, channel_abstraction_cell_m3),
            !.demand = RSub(@, channel_abstraction_cell_m)]

\* a reservoir withdrawal that is not added to the withdrawal of the field
withdraw_reservoir_unrecorded(acc, cell_area, command_area, field, farmer) ==
    LET reservoir_abstraction_m_cell_m3 ==
            RMin(At(acc.available_reservoir_storage_m3, command_area),
                 RMul(acc.demand, At(cell_area, field)))
    IN  [acc EXCEPT
            !.available_reservoir_storage_m3[command_area + 1] =
                RSub(@, reservoir_abstraction_m_cell_m3),
            !.reservoir_abstraction_m3_by_farmer[farmer + 1] =
                RAdd(@, reservoir_abstraction_m_cell_m3),
            !.demand = RSub(@, RDiv(reservoir_abstraction_m_cell_m3, At(cell_area, field)))]

\* a groundwater withdrawal of the whole demand of the field, whatever the
\* earlier sources gave
withdraw_groundwater_full_demand(acc, cell_area, groundwater_depth, well_depths, farmer, grid_cell, field) ==
    IF RLess(At(groundwater_depth, grid_cell), At(well_depths, farmer))
    THEN LET groundwater_abstraction_cell_m3 ==
                 RMin(At(acc.available_groundwater_m3, grid_cell),
                      RAdd(RMul(acc.demand, At(cell_area, field)),
                           RMul(At(acc.water_withdrawal_m, field), At(cell_area, field))))
         IN  [acc EXCEPT
                 !.available_groundwater_m3[grid_cell + 1] =
                     RSub(@, groundwater_abstraction_cell_m3),
                 !.water_withdrawal_m[field + 1] =
                     RAdd(@, RDiv(groundwater_abstraction_cell_m3, At(cell_area, field))),
                 !.groundwater_abstraction_m3_by_farmer[farmer + 1] =
                     RAdd(@, groundwater_abstraction_cell_m3),
                 !.demand = RSub(@, RDiv(groundwater_abstraction_cell_m3,
                                         At(cell_area, field)))]
    ELSE acc

\* withdraw_channel(..., minimum_channel_storage_m3)
withdraw_channel(acc, cell_area, grid_cell, field, farmer, minimum_channel_storage_m3) ==
    LET channel_abstraction_cell_m3 ==
            RMin(RMax(RSub(At(acc.available_channel_storage_m3, grid_cell),
                           minimum_channel_storage_m3), R(0)),
                 RMul(acc.demand, At(cell_area, field)))
        channel_abstraction_cell_m == RDiv(channel_abstraction_cell_m3, At(cell_area, field))
    IN  IF RLess(channel_abstraction_cell_m3, R(0))
        THEN [acc EXCEPT !.err = "AssertionError"]
        ELSE [acc EXCEPT
                !.available_channel_storage_m3[grid_cell + 1] =
                    RSub(@, channel_abstraction_cell_m3),
                !.water_withdrawal_m[field + 1] = RAdd(@, channel_abstraction_cell_m),
                !.remaining_irrigation_limit_m3[farmer + 1] =
                    IF @ = NaN THEN @ ELSE RSub(@, channel_abstraction_cell_m3),
                !.channel_abstraction_m3_by_farmer[farmer + 1] =
                    RAdd(@, channel_abstraction_cell_m3),
                !.withdrawals =
                    Append(@, Withdrawal("channel", farmer, field, grid_cell, channel_abstraction_cell_m3,
                                         RSub(At(acc.available_channel_storage_m3, grid_cell),
                                              channel_abstraction_cell_m3))),
                !.demand = RSub(@, channel_abstraction_cell_m)]

\* withdraw_reservoir
withdraw_reservoir(acc, cell_area, command_area, field, farmer) ==
    LET water_demand_cell_M3 == RMul(acc.demand, At(cell_area, field))
        reservoir_abstraction_m_cell_m3 ==
            RMin(At(acc.available_reservoir_storage_m3, command_area), water_demand_cell_M3)
        reservoir_abstraction_m_cell ==
            RDiv(reservoir_abstraction_m_cell_m3, At(cell_area, field))
    IN  [acc EXCEPT
            !.available_reservoir_storage_m3[command_area + 1] =
                RSub(@, reservoir_abstraction_m_cell_m3),
            !.water_withdrawal_m[field + 1] = RAdd(@, reservoir_abstraction_m_cell),
            !.remaining_irrigation_limit_m3[farmer + 1] =
                IF @ = NaN THEN @ ELSE RSub(@, reservoir_abstraction_m_cell_m3),
            !.reservoir_abstraction_m3_by_farmer[farmer + 1] =
                RAdd(@, reservoir_abstraction_m_cell_m3),
            !.withdrawals =
                Append(@, Withdrawal("reservoir", farmer, field, command_area, reservoir_abstraction_m_cell_m3,
                                     RSub(At(acc.available_reservoir_storage_m3, command_area),
                                          reservoir_abstraction_m_cell_m3))),
            !.demand = RSub(@, reservoir_abstraction_m_cell)]

\* a groundwater withdrawal that is not counted against the limit of the farmer
withdraw_groundwater_outside_limit(acc, cell_area, groundwater_depth, well_depths, farmer, grid_cell, field) ==
    IF RLess(At(groundwater_depth, grid_cell), At(well_depths, farmer))
    THEN LET groundwater_abstraction_cell_m3 ==
                 RMin(At(acc.available_groundwater_m3, grid_cell),
                      RMul(acc.demand, At(cell_area, field)))
             groundwater_abstraction_cell_m ==
                 RDiv(groundwater_abstraction_cell_m3, At(cell_area, field))
         IN  IF RLess(groundwater_abstraction_cell_m3, R(0))
             THEN [acc EXCEPT !.err = "AssertionError"]
             ELSE [acc EXCEPT
                     !.available_groundwater_m3[grid_cell + 1] =
                         RSub(@, groundwater_abstraction_cell_m3),
                     !.water_withdrawal_m[field + 1] =
                         RAdd(@, groundwater_abstraction_cell_m),
                     !.groundwater_abstraction_m3_by_farmer[farmer + 1] =
                         RAdd(@, groundwater_abstraction_cell_m3),
                     !.withdrawals =
                         Append(@, Withdrawal("groundwater", farmer, field, grid_cell,
                                              groundwater_abstraction_cell_m3,
                                              RSub(At(acc.available_groundwater_m3, grid_cell),
                                                   groundwater_abstraction_cell_m3))),
                     !.demand = RSub(@, groundwater_abstraction_cell_m)]
    ELSE acc

\* withdraw_groundwater
withdraw_groundwater(acc, cell_area, groundwater_depth, well_depths, farmer, grid_cell, field) ==
    IF RLess(At(groundwater_depth, grid_cell), At(well_depths, farmer))
    THEN LET groundwater_abstraction_cell_m3 ==
                 RMin(At(acc.available_groundwater_m3, grid_cell),
                      RMul(acc.demand, At(cell_area, field)))
             groundwater_abstraction_cell_m ==
                 RDiv(groundwater_abstraction_cell_m3, At(cell_area, field))
         IN  IF RLess(groundwater_abstraction_cell_m3, R(0))
             THEN [acc EXCEPT !.err = "AssertionError"]
             ELSE [acc EXCEPT
                     !.available_groundwater_m3[grid_cell + 1] =
                         RSub(@, groundwater_abstraction_cell_m3),
                     !.water_withdrawal_m[field + 1] =
                         RAdd(@, groundwater_abstraction_cell_m),
                     !.remaining_irrigation_limit_m3[farmer + 1] =
                         IF @ = NaN THEN @ ELSE RSub(@, groundwater_abstraction_cell_m3),
                     !.groundwater_abstraction_m3_by_farmer[farmer + 1] =
                         RAdd(@, groundwater_abstraction_cell_m3),
                     !.withdrawals =
                         Append(@, Withdrawal("groundwater", farmer, field, grid_cell,
                                              groundwater_abstraction_cell_m3,
                                              RSub(At(acc.available_groundwater_m3, grid_cell),
                                                   groundwater_abstraction_cell_m3))),
                     !.demand = RSub(@, groundwater_abstraction_cell_m)]
    ELSE acc

\* get_future_deficit: today's potential consumption plus the deficits of
\* the rest of the farmer's crop calendar; later_deficit_m3 is the sum the
\* loop over the calendar adds
get_future_deficit(day_index, later_deficit_m3, potential_irrigation_consumption_farmer_m3) ==
    IF day_index >= 365 THEN potential_irrigation_consumption_farmer_m3
    ELSE RAdd(potential_irrigation_consumption_farmer_m3, later_deficit_m3)

\* the adjustment without the cap at the potential consumption
adjust_irrigation_uncapped(limit, day_index, later_deficit_m3, irrigation_efficiency_farmer, potential_irrigation_consumption_m, potential_irrigation_consumption_farmer_m3) ==
    IF RLess(limit, R(0))
    THEN [potential |-> [k \in 1..Len(potential_irrigation_consumption_m) |-> R(0)],
          err |-> "none"]
    ELSE LET future_water_deficit ==
                 get_future_deficit(day_index, later_deficit_m3,
                                    potential_irrigation_consumption_farmer_m3)
             reduction_factor ==
                 RDiv(RMul(RDiv(RMul(potential_irrigation_consumption_farmer_m3, limit),
                                future_water_deficit),
                           irrigation_efficiency_farmer),
                      potential_irrigation_consumption_farmer_m3)
         IN  IF ~RLess(R(0), future_water_deficit)
             THEN [potential |-> potential_irrigation_consumption_m, err |-> "AssertionError"]
             ELSE [potential |->
                       [k \in 1..Len(potential_irrigation_consumption_m) |->
                           RMul(potential_irrigation_consumption_m[k], reduction_factor)],
                   err |-> "none"]

\* adjust_irrigation_to_limit: [potential (per field of the farmer), err]
adjust_irrigation_to_limit(limit, day_index, later_deficit_m3, irrigation_efficiency_farmer, potential_irrigation_consumption_m, potential_irrigation_consumption_farmer_m3) ==
    IF RLess(limit, R(0))
    THEN [potential |-> [k \in 1..Len(potential_irrigation_consumption_m) |-> R(0)],
          err |-> "none"]
    ELSE LET future_water_deficit ==
                 get_future_deficit(day_index, later_deficit_m3,
                                    potential_irrigation_consumption_farmer_m3)
             irrigation_water_withdrawal_farmer_m3 ==
                 RDiv(RMul(potential_irrigation_consumption_farmer_m3, limit),
                      future_water_deficit)
             irrigation_water_consumption_farmer_m3 ==
                 RMin(RMul(irrigation_water_withdrawal_farmer_m3,
                           irrigation_efficiency_farmer),
                      potential_irrigation_consumption_farmer_m3)
             reduction_factor ==
                 RDiv(irrigation_water_consumption_farmer_m3,
                      potential_irrigation_consumption_farmer_m3)
         IN  IF ~RLess(R(0), future_water_deficit)
             THEN [potential |-> potential_irrigation_consumption_m, err |-> "AssertionError"]
             ELSE [potential |->
                       [k \in 1..Len(potential_irrigation_consumption_m) |->
                           RMul(potential_irrigation_consumption_m[k], reduction_factor)],
                   err |-> "none"]

(***************************************************************************)
(* Water abstraction: the kernel abstract_water                            *)
(***************************************************************************)
\* farmer_command_area: for every farmer the command area of its first field
\* that lies in one, else -1
RECURSIVE first_command_area(_, _, _)
first_command_area(k, farmer_fields, reservoir_command_areas) ==
    IF k > Len(farmer_fields) THEN -1
    ELSE IF At(reservoir_command_areas, farmer_fields[k]) # -1
         THEN At(reservoir_command_areas, farmer_fields[k])
         ELSE first_command_area(k + 1, farmer_fields, reservoir_command_areas)

farmer_command_area(count, indices, index_rows, reservoir_command_areas) ==
    [a \in 1..count |->
        first_command_area(1, get_farmer_HRUs(indices, index_rows, a - 1),
                           reservoir_command_areas)]

\* the loop that decides whether the farmer has access to irrigation water;
\* grid_cell_nearest keeps the value of the iteration the loop stopped in
RECURSIVE access_loop(_, _, _, _, _)
access_loop(k, farmer_fields, farmer, inp, acc) ==
    IF k > Len(farmer_fields)
    THEN [access |-> FALSE,
          grid_cell_nearest |-> At(inp.nearest_river_grid_cell, farmer_fields[k - 1])]
    ELSE LET field == farmer_fields[k]
             grid_cell == At(inp.HRU_to_grid, field)
             grid_cell_nearest == At(inp.nearest_river_grid_cell, field)
             command_area == At(inp.farmer_command_area, farmer)
             found ==
                IF At(inp.well_irrigated, farmer)
                THEN RLess(At(inp.groundwater_depth, grid_cell), At(inp.well_depth, farmer))
                ELSE IF At(inp.surface_irrigated, farmer)
                THEN \/ RLess(R(0), At(acc.available_channel_storage_m3, grid_cell_nearest))
                     \/ /\ command_area # -1
                        /\ RLess(R(0), At(acc.available_reservoir_storage_m3, command_area))
                ELSE FALSE
         IN  IF found THEN [access |-> TRUE, grid_cell_nearest |-> grid_cell_nearest]
             ELSE access_loop(k + 1, farmer_fields, farmer, inp, acc)

\* potential_irrigation_consumption_m of the farmer's fields: [potential, err]
potential_irrigation_consumption(farmer_fields, farmer, inp) ==
    LET paddy(k) == At(inp.field_is_paddy_irrigated, farmer_fields[k])
        idx == 1..Len(farmer_fields)
        potential ==
            IF paddy(1)
            THEN [k \in idx |->
                    RMax(RSub(inp.max_paddy_water_level,
                              At(inp.paddy_level, farmer_fields[k])), R(0))]
            ELSE [k \in idx |->
                    RMul(RMin(IF RLess(At(inp.readily_available_water, farmer_fields[k]),
                                       At(inp.critical_water_level, farmer_fields[k]))
                              THEN RSub(At(inp.max_water_content, farmer_fields[k]),
                                        At(inp.readily_available_water, farmer_fields[k]))
                              ELSE R(0),
                              At(inp.potential_infiltration_capacity, farmer_fields[k])),
                         At(inp.fraction_irrigated_field, farmer))]
    IN  [potential |-> potential,
         err |-> IF \E k \in idx : paddy(k) # paddy(1) THEN "AssertionError"
                 ELSE IF \E k \in idx : RLess(potential[k], R(0)) THEN "AssertionError"
                 ELSE "none"]

\* the withdrawals for one field, in the order of the code
field_withdrawals(acc, field, farmer, inp, potential_field, grid_cell_nearest) ==
    LET grid_cell == At(inp.HRU_to_grid, field)
        command_area == At(inp.farmer_command_area, farmer)
        surface == At(inp.surface_irrigated, farmer)
    IN  IF At(inp.crop_map, field) = -1 THEN acc
        ELSE
        Then([acc EXCEPT !.demand =
                  RDiv(potential_field, At(inp.irrigation_efficiency, farmer))],
        LAMBDA a0 :
        Then(IF surface
             THEN withdraw_channel(a0, inp.cell_area, grid_cell_nearest, field, farmer, R(100))
             ELSE a0,
        LAMBDA a1 :
        Then(IF surface /\ a1.err = "none" /\ command_area # -1
             THEN withdraw_reservoir(a1, inp.cell_area, command_area, field, farmer)
             ELSE a1,
        LAMBDA a2 :
             IF At(inp.well_irrigated, farmer) /\ a2.err = "none"
             THEN withdraw_groundwater(a2, inp.cell_area, inp.groundwater_depth,
                                       inp.well_depth, farmer, grid_cell, field)
             ELSE a2)))

\* the split of a field's withdrawal with the whole loss sent to evaporation
\* while the return flow is recorded as well
field_consumption_loss_twice(acc, field, irrigation_efficiency_farmer, return_fraction) ==
    LET water_consumption == RMul(At(acc.water_withdrawal_m, field), irrigation_efficiency_farmer)
        irrigation_loss_m == RSub(At(acc.water_withdrawal_m, field), water_consumption)
    IN  IF acc.err # "none" THEN acc
        ELSE [acc EXCEPT
                !.water_consumption_m[field + 1] = water_consumption,
                !.returnFlowIrr_m[field + 1] = RMul(irrigation_loss_m, return_fraction),
                !.addtoevapotrans_m[field + 1] = irrigation_loss_m]

\* water_consumption_m, returnFlowIrr_m and addtoevapotrans_m of one field
field_consumption(acc, field, irrigation_efficiency_farmer, return_fraction) ==
    LET water_consumption == RMul(At(acc.water_withdrawal_m, field), irrigation_efficiency_farmer)
        irrigation_loss_m == RSub(At(acc.water_withdrawal_m, field), water_consumption)
        returnFlowIrr == RMul(irrigation_loss_m, return_fraction)
    IN  IF acc.err # "none" THEN acc
        ELSE IF \/ RLess(At(acc.water_withdrawal_m, field), R(0))
                \/ RLess(irrigation_loss_m, R(0))
        THEN [acc EXCEPT !.err = "AssertionError"]
        ELSE [acc EXCEPT
                !.water_consumption_m[field + 1] = water_consumption,
                !.returnFlowIrr_m[field + 1] = returnFlowIrr,
                !.addtoevapotrans_m[field + 1] = RSub(irrigation_loss_m, returnFlowIrr)]

\* the loop over the farmer's fields that applies the irrigation
RECURSIVE field_loop(_, _, _, _, _, _, _)
field_loop(k, farmer_fields, farmer, inp, potential, grid_cell_nearest, acc) ==
    IF k > Len(farmer_fields) \/ acc.err # "none" THEN acc
    ELSE
        Then(field_withdrawals(acc, farmer_fields[k], farmer, inp, potential[k],
                               grid_cell_nearest),
        LAMBDA a4 :
        Then(field_consumption(a4, farmer_fields[k],
                               At(inp.irrigation_efficiency, farmer), inp.return_fraction),
        LAMBDA a5 :
             field_loop(k + 1, farmer_fields, farmer, inp, potential, grid_cell_nearest, a5)))

\* the irrigation of a farmer who grows crops
irrigate(acc, inp, farmer, farmer_fields) ==
    LET farmer_m3(potential) ==
            RSum([k \in 1..Len(farmer_fields) |->
                    RMul(potential[k], At(inp.cell_area, farmer_fields[k]))])
        limit == At(acc.remaining_irrigation_limit_m3, farmer)
    IN  Then(access_loop(1, farmer_fields, farmer, inp, acc),
        LAMBDA found :
            IF ~found.access THEN acc
            ELSE
            Then(potential_irrigation_consumption(farmer_fields, farmer, inp),
            LAMBDA pot :
                IF pot.err # "none" THEN [acc EXCEPT !.err = pot.err]
                ELSE IF ~RLess(R(0), farmer_m3(pot.potential)) THEN acc
                ELSE
                Then(IF limit = NaN THEN pot
                     ELSE adjust_irrigation_to_limit(
                            limit, inp.day_index, At(inp.later_deficit_m3, farmer),
                            At(inp.irrigation_efficiency, farmer),
                            pot.potential, farmer_m3(pot.potential)),
                LAMBDA adjusted :
                    IF adjusted.err # "none" THEN [acc EXCEPT !.err = adjusted.err]
                    ELSE field_loop(1, farmer_fields, farmer, inp, adjusted.potential,
                                    found.grid_cell_nearest, acc))))

\* one iteration of the loop over the activation order; bc: the build
\* checks array bounds
farmer_step(acc, inp, farmer, bc) ==
    Then(get_farmer_HRUs(inp.field_indices, inp.field_indices_by_farmer, farmer),
    LAMBDA farmer_fields :
        IF farmer_fields = <<>>
        THEN \* farmer_crops[0] reads behind an empty array: IndexError when
             \* bounds are checked; otherwise whatever is read, there is no
             \* field to irrigate
             IF bc THEN [acc EXCEPT !.err = "IndexError"] ELSE acc
        ELSE IF At(inp.crop_map, farmer_fields[1]) = -1
        THEN IF \E k \in 1..Len(farmer_fields) : At(inp.crop_map, farmer_fields[k]) # -1
             THEN [acc EXCEPT !.err = "AssertionError"] ELSE acc
        ELSE irrigate(acc, inp, farmer, farmer_fields))

RECURSIVE farmers_loop(_, _, _, _, _)
farmers_loop(k, order, inp, bc, acc) ==
    IF k > Len(order) \/ acc.err # "none" THEN acc
    ELSE Then(farmer_step(acc, inp, order[k], bc),
              LAMBDA after : farmers_loop(k + 1, order, inp, bc, after))

\* abstract_water(day_index, n, activation_order, ...): the arrays returned
\* and the arrays changed in place
abstract_water(count, order, inp, bc) ==
    LET zeros(len) == [i \in 1..len |-> R(0)]
        acc == [channel_abstraction_m3_by_farmer |-> zeros(Len(order)),
                reservoir_abstraction_m3_by_farmer |-> zeros(Len(order)),
                groundwater_abstraction_m3_by_farmer |-> zeros(Len(order)),
                water_withdrawal_m |-> zeros(Len(inp.cell_area)),
                water_consumption_m |-> zeros(Len(inp.cell_area)),
                returnFlowIrr_m |-> zeros(Len(inp.cell_area)),
                addtoevapotrans_m |-> zeros(Len(inp.cell_area)),
                available_channel_storage_m3 |-> inp.available_channel_storage_m3,
                available_groundwater_m3 |-> inp.available_groundwater_m3,
                available_reservoir_storage_m3 |-> inp.available_reservoir_storage_m3,
                remaining_irrigation_limit_m3 |-> inp.remaining_irrigation_limit_m3,
                demand |-> R(0),
                withdrawals |-> <<>>,
                err |-> "none"]
    IN  IF count # Len(order) THEN [acc EXCEPT !.err = "AssertionError"]
        ELSE Then(acc, LAMBDA start : farmers_loop(1, order, inp, bc, start))

(***************************************************************************)
(* Water abstraction: the runs                                             *)
(***************************************************************************)
\* HRU.var.cellArea
cellArea == [f \in 1..NFields |-> IF (f - 1) % 3 = 2 THEN R(2) ELSE R(1)]

\* HRU.var.HRU_to_grid
HRU_to_grid == [f \in 1..NFields |-> (f - 1) % 2]

\* HRU.var.nearest_river_grid_cell
nearest_river_grid_cell == [f \in 1..NFields |-> (f - 1) \div 2]

\* HRU.var.reservoir_command_areas; -1: the field is in no command area
reservoir_command_areas == [f \in 1..NFields |-> IF (f - 1) % 2 = 0 THEN 0 ELSE -1]

\* the grid cells
GridCells == 0..((NFields - 1) \div 2 + 1)

\* channel storage of grid cell 0 (m3); the other cells hold 1000 m3
ChannelLevels == {R(50), R(150), R(1000)}

\* groundwater: [available m3 per cell, depth of the water table]
GroundwaterCases == {[m3 |-> R(60), depth |-> R(5)], [m3 |-> R(60), depth |-> R(15)]}

Efficiencies == {R(1), Frac(1, 2)}

\* get_deficit_between_dates summed over the rest of the crop calendar: the
\* cumulative deficit of a farmer does not decrease over the year, so the sum
\* is not negative.  A run of the abstraction on its own is given either
\* curve; in the runs over the days the farmers have recorded no deficit
LaterDeficits == IF crop_calendar = <<>> THEN {R(0), R(100)} ELSE {R(0)}

\* var.irrigation_source of the farmers
IrrigationSources == {"no", "canal", "well"}

\* what a run is given by the hydrology and the farmers' attributes
AbstractionDraws ==
    [channel : ChannelLevels, groundwater : GroundwaterCases, efficiency : Efficiencies,
     later_deficit_m3 : LaterDeficits]

\* the arguments of the kernel for a draw
KernelInputs(draw, surface_irrigated, well_irrigated, wells, limits) ==
    LET rows == data(field_indices_by_farmer, arrays_n)
        perfarmer(v) == [a \in 1..Len(rows) |-> v]
        perfield(v) == [f \in 1..NFields |-> v]
    IN  [day_index |-> 0,
         field_indices_by_farmer |-> rows,
         field_indices |-> field_indices,
         irrigation_efficiency |-> perfarmer(draw.efficiency),
         fraction_irrigated_field |-> perfarmer(R(1)),
         surface_irrigated |-> surface_irrigated,
         well_irrigated |-> well_irrigated,
         cell_area |-> cellArea,
         HRU_to_grid |-> HRU_to_grid,
         nearest_river_grid_cell |-> nearest_river_grid_cell,
         crop_map |-> crop_map,
         field_is_paddy_irrigated |-> perfield(FALSE),
         paddy_level |-> perfield(R(0)),
         readily_available_water |->
             [f \in 1..NFields |-> IF (f - 1) % 2 = 0 THEN R(70) ELSE R(50)],
         critical_water_level |-> perfield(R(80)),
         max_water_content |-> perfield(R(100)),
         potential_infiltration_capacity |-> perfield(R(1000)),
         available_channel_storage_m3 |->
             [c \in 1..Cardinality(GridCells) |-> IF c = 1 THEN draw.channel ELSE R(1000)],
         available_groundwater_m3 |->
             [c \in 1..Cardinality(GridCells) |-> draw.groundwater.m3],
         available_reservoir_storage_m3 |-> <<R(40)>>,
         groundwater_depth |->
             [c \in 1..Cardinality(GridCells) |-> draw.groundwater.depth],
         farmer_command_area |->
             farmer_command_area(n, field_indices, rows, reservoir_command_areas),
         return_fraction |-> Frac(1, 2),
         well_depth |-> wells,
         remaining_irrigation_limit_m3 |-> limits,
         later_deficit_m3 |-> perfarmer(draw.later_deficit_m3),
         max_paddy_water_level |-> Frac(1, 20)]

\* what a run leaves behind: the arrays returned and the pools after it
Outputs(acc) ==
    [channel_abstraction_m3_by_farmer |-> acc.channel_abstraction_m3_by_farmer,
     reservoir_abstraction_m3_by_farmer |-> acc.reservoir_abstraction_m3_by_farmer,
     groundwater_abstraction_m3_by_farmer |-> acc.groundwater_abstraction_m3_by_farmer,
     water_withdrawal_m |-> acc.water_withdrawal_m,
     water_consumption_m |-> acc.water_consumption_m,
     returnFlowIrr_m |-> acc.returnFlowIrr_m,
     addtoevapotrans_m |-> acc.addtoevapotrans_m,
     available_channel_storage_m3 |-> acc.available_channel_storage_m3,
     available_groundwater_m3 |-> acc.available_groundwater_m3,
     available_reservoir_storage_m3 |-> acc.available_reservoir_storage_m3,
     remaining_irrigation_limit_m3 |-> acc.remaining_irrigation_limit_m3,
     withdrawals |-> acc.withdrawals,
     err |-> acc.err]

\* a run that ended in the exception e before the kernel was entered
Raised(e) == [err |-> e]

\* the builds that differ on this population: bounds checking matters only
\* where the kernel reads behind an array
Builds == IF field_indices = <<>> THEN BOOLEAN ELSE {FALSE}

\* CropFarmers.abstract_water: reads the activation order, calls the kernel;
\* a second run over the same inputs draws its own permutation.  One
\* abstraction is followed per behaviour.
CropFarmers_abstract_water ==
    /\ err = "none"
    /\ w_in = <<>>
    /\ \E draw \in AbstractionDraws, bc \in Builds :
         /\ \E elev \in {data(elevation, arrays_n)},
               inp \in {KernelInputs(
                          draw,
                          [a \in 1..arrays_n |-> irrigation_source[a] = "canal"],
                          [a \in 1..arrays_n |-> irrigation_source[a] = "well"],
                          data(well_depth, arrays_n),
                          data(remaining_irrigation_limit_m3, arrays_n))} :
             \E p \in random_permutations(fix_activation_order, Len(elev)),
                q \in random_permutations(fix_activation_order, Len(elev)) :
               \E r \in {activation_order_by_elevation(
                            fix_activation_order, activation_order_by_elevation_fixed,
                            n, elev, p)},
                  t \in {activation_order_by_elevation(
                            fix_activation_order, twin_fixed, n, elev, q)} :
                 \E out \in {IF r.err # "none" THEN Raised(r.err)
                              ELSE Outputs(abstract_water(n, r.order, inp, bc))},
                    twin \in {IF t.err # "none" THEN Raised(t.err)
                               ELSE Outputs(abstract_water(n, t.order, inp, bc))} :
                      /\ activation_order' = r.order
                      /\ activation_order_by_elevation_fixed' = r.fixed
                      /\ twin_order' = t.order
                      /\ twin_fixed' = t.fixed
                      /\ w_in' = inp
                      /\ w_out' = out
                      /\ w_twin' = twin
                      /\ err' = out.err
                      /\ remaining_irrigation_limit_m3' =
                            IF "remaining_irrigation_limit_m3" \in DOMAIN out
                            THEN [a \in 1..Len(remaining_irrigation_limit_m3) |->
                                    IF a <= arrays_n
                                    THEN out.remaining_irrigation_limit_m3[a]
                                    ELSE remaining_irrigation_limit_m3[a]]
                            ELSE remaining_irrigation_limit_m3
                      /\ f_op' = [name |-> "CropFarmers.abstract_water", idx |-> -1]
    /\ UNCHANGED <<irrigation_source, well_depth, irrigation_limit_m3, intention_factor>>
    /\ UNCHANGED <<n, arrays_n, locations, elevation, social_network, field_indices_by_farmer,
                   field_indices, land_owners, crop_map, crop_age_days_map,
                   crop_harvest_age_days, land_use_type, f_pre, fix_activation_order>>

\* the kernel called on its own, with an activation order of the caller
abstract_water_call ==
    /\ err = "none"
    /\ w_in = <<>>
    /\ \E draw \in AbstractionDraws, bc \in Builds, surface \in BOOLEAN, well \in BOOLEAN :
         \E inp \in {KernelInputs(draw,
                                  [a \in 1..arrays_n |-> surface],
                                  [a \in 1..arrays_n |-> well],
                                  data(well_depth, arrays_n),
                                  [a \in 1..arrays_n |-> NaN])},
            order \in random_permutations(FALSE, n) :
           \E out \in {Outputs(abstract_water(n, order, inp, bc))} :
                   /\ activation_order' = order
                   /\ twin_order' = order
                   /\ w_in' = inp
                   /\ w_out' = out
                   /\ w_twin' = out
                   /\ err' = out.err
                   /\ f_op' = [name |-> "abstract_water", idx |-> -1]
    /\ UNCHANGED <<n, arrays_n, locations, elevation, social_network, field_indices_by_farmer,
                   field_indices, land_owners, crop_map, crop_age_days_map,
                   crop_harvest_age_days, land_use_type, f_pre, fix_activation_order,
                   activation_order_by_elevation_fixed, twin_fixed>>

InitWater ==
    /\ w_in = <<>>
    /\ w_out = <<>>
    /\ w_twin = <<>>

\* var.intention_factor of the farms file: 0.5 and 0.8 in turns
IntentionFactors(cap) == [a \in 1..cap |-> IF a % 2 = 1 THEN Frac(1, 2) ELSE Frac(4, 5)]

\* CropFarmers.spinup: the attributes of the farmers, one backing row per
\* max_n; all farmers have the irrigation source of the farms file, wells of
\* 10 m, and the yearly irrigation limit of the draw
InitAttributes(limits) ==
    LET cap == Len(elevation)
    IN  /\ \E source \in IrrigationSources : irrigation_source = [a \in 1..cap |-> source]
        /\ well_depth = [a \in 1..cap |-> R(10)]
        /\ \E limit \in limits : irrigation_limit_m3 = [a \in 1..cap |-> limit]
        /\ remaining_irrigation_limit_m3 = [a \in 1..cap |-> NaN]
        /\ intention_factor = IntentionFactors(cap)

AttributesIdle ==
    /\ irrigation_source = <<>>
    /\ well_depth = <<>>
    /\ irrigation_limit_m3 = <<>>
    /\ remaining_irrigation_limit_m3 = <<>>
    /\ intention_factor = <<>>

DayIdle ==
    /\ current_time = [year |-> 0, day_index |-> 0]
    /\ step_pc = "done"
    /\ crop_calendar = <<>>
    /\ crop_calendar_rotation_years = <<>>
    /\ current_crop_calendar_rotation_year_index = <<>>
    /\ all_loans_annual_cost = <<>>
    /\ loan_tracker = <<>>
    /\ adapted = <<>>
    /\ time_adapted = <<>>
    /\ adapted_efficiency = <<>>
    /\ time_adapted_efficiency = <<>>
    /\ config = <<>>
    /\ yearly_pass = <<>>

(***************************************************************************)
(* The daily step of the crop farmers: harvest and plant                   *)
(***************************************************************************)
PADDY_IRRIGATED == 2

\* var.crop_data: the ids of the crops with is_paddy set
paddy_crops == {1}

\* the population, its fields and its loans as one value
FarmersAndLoans ==
    Farmers @@ [all_loans_annual_cost |-> all_loans_annual_cost,
                loan_tracker |-> loan_tracker]

\* the fields of one farmer in harvest_numba, from position k on;
\* acc = [harvest, crop_harvest_age_days, err]
RECURSIVE harvest_fields(_, _, _, _, _)
harvest_fields(k, farmer_fields, crops, crop_age_days, acc) ==
    IF k > Len(farmer_fields) \/ acc.err # "none" THEN acc
    ELSE LET field == farmer_fields[k]
             crop_age == At(crop_age_days, field)
         IN  IF crop_age >= 0
             THEN IF At(crops, field) = -1
                  THEN [acc EXCEPT !.err = "AssertionError"]
                  ELSE IF crop_age = At(acc.crop_harvest_age_days, field)
                  THEN harvest_fields(
                         k + 1, farmer_fields, crops, crop_age_days,
                         [acc EXCEPT !.harvest[field + 1] = TRUE,
                                     !.crop_harvest_age_days[field + 1] = -1])
                  ELSE harvest_fields(k + 1, farmer_fields, crops, crop_age_days, acc)
             ELSE IF At(crops, field) # -1
                  THEN [acc EXCEPT !.err = "AssertionError"]
                  ELSE harvest_fields(k + 1, farmer_fields, crops, crop_age_days, acc)

\* CropFarmers.harvest_numba: the fields to harvest, and the harvest ages
\* with those of the harvested fields cleared
RECURSIVE harvest_numba_loop(_, _, _, _, _, _, _)
harvest_numba_loop(farmer_i, count, index_rows, indices, crops, crop_age_days, acc) ==
    IF farmer_i >= count \/ acc.err # "none" THEN acc
    ELSE harvest_numba_loop(
           farmer_i + 1, count, index_rows, indices, crops, crop_age_days,
           harvest_fields(1, get_farmer_HRUs(indices, index_rows, farmer_i),
                          crops, crop_age_days, acc))

harvest_numba(count, index_rows, indices, crops, crop_age_days, harvest_age_days) ==
    harvest_numba_loop(0, count, index_rows, indices, crops, crop_age_days,
                       [harvest |-> [f \in 1..Len(crops) |-> FALSE],
                        crop_harvest_age_days |-> harvest_age_days,
                        err |-> "none"])

\* a harvest that leaves the age of the harvested fields as it is
CropFarmers_harvest_keeps_age(st) ==
    LET h == harvest_numba(st.n, data(st.field_indices_by_farmer, st.arrays_n),
                           st.field_indices, st.crop_map, st.crop_age_days_map,
                           st.crop_harvest_age_days)
    IN  [st EXCEPT
           !.crop_harvest_age_days = h.crop_harvest_age_days,
           !.crop_map = [f \in 1..Len(st.crop_map) |->
                           IF h.harvest[f] THEN -1 ELSE st.crop_map[f]],
           !.crop_age_days_map =
               [f \in 1..Len(st.crop_map) |->
                  IF ~h.harvest[f] /\ st.crop_map[f] >= 0
                  THEN st.crop_age_days_map[f] + 1 ELSE st.crop_age_days_map[f]],
           !.land_use_type =
               [f \in 1..Len(st.crop_map) |->
                  IF h.harvest[f] THEN GRASSLAND_LIKE ELSE st.land_use_type[f]],
           !.err = h.err]

\* CropFarmers.harvest on the population st; the yield and profit
\* bookkeeping of the harvested fields writes none of the crop maps
CropFarmers_harvest(st) ==
    LET h == harvest_numba(st.n, data(st.field_indices_by_farmer, st.arrays_n),
                           st.field_indices, st.crop_map, st.crop_age_days_map,
                           st.crop_harvest_age_days)
        cleared == [f \in 1..Len(st.crop_map) |->
                      IF h.harvest[f] THEN -1 ELSE st.crop_map[f]]
        aged == [f \in 1..Len(st.crop_map) |->
                   IF h.harvest[f] THEN -1
                   ELSE IF cleared[f] >= 0 THEN st.crop_age_days_map[f] + 1
                   ELSE st.crop_age_days_map[f]]
        after == [st EXCEPT
                    !.crop_harvest_age_days = h.crop_harvest_age_days,
                    !.crop_map = cleared,
                    !.crop_age_days_map = aged,
                    !.land_use_type =
                        [f \in 1..Len(st.crop_map) |->
                           IF h.harvest[f] THEN GRASSLAND_LIKE ELSE st.land_use_type[f]]]
    IN  IF h.err # "none"
        THEN [st EXCEPT !.crop_harvest_age_days = h.crop_harvest_age_days,
                        !.err = h.err]
        ELSE IF \E f \in 1..Len(aged) : aged[f] > h.crop_harvest_age_days[f]
        THEN [after EXCEPT !.err = "AssertionError"]
        ELSE after

\* the slots of a farmer's calendar that start today in the farmer's current
\* year of the rotation; a slot is <<crop, start day, growth length, year>>
planting_farmers_per_season(calendar, rotation_year_index, day_index, farmer_idx) ==
    {slot \in 1..Len(At(calendar, farmer_idx)) :
        /\ At(calendar, farmer_idx)[slot][2] = day_index
        /\ At(calendar, farmer_idx)[slot][4] = At(rotation_year_index, farmer_idx)}

\* the yearly cost of a loan of two years for the cultivation cost
annual_cost_input_loan(cultivation_cost_farmer, interest_rate_farmer) ==
    LET growth == RMul(RAdd(R(1), interest_rate_farmer), RAdd(R(1), interest_rate_farmer))
    IN  RMul(cultivation_cost_farmer,
             RDiv(RMul(interest_rate_farmer, growth), RSub(growth, R(1))))

\* the input loan of a planting farmer: the first free of four entries takes
\* the cost and a duration of 2, the total takes the cost in any case
add_input_loan(acc, farmer_idx, cost) ==
    LET entries == At(acc.all_loans_annual_cost, farmer_idx).input
        free == {i \in 1..4 : entries[i] = R(0)}
        first == CHOOSE i \in free : \A j \in free : i <= j
        booked == IF free = {} THEN acc
                  ELSE [acc EXCEPT
                          !.all_loans_annual_cost[farmer_idx + 1].input[first] =
                              RAdd(@, cost),
                          !.loan_tracker[farmer_idx + 1].input[first] = 2]
    IN  [booked EXCEPT !.all_loans_annual_cost[farmer_idx + 1].total = RAdd(@, cost)]

\* the fields of a planting farmer from position k on: a field that has a
\* harvest age is left alone
RECURSIVE plant_fields(_, _, _, _, _)
plant_fields(k, farmer_fields, farmer_crop, field_harvest_age, acc) ==
    IF k > Len(farmer_fields) THEN acc
    ELSE LET field == farmer_fields[k]
         IN  IF At(acc.crop_harvest_age_days, field) # -1
             THEN plant_fields(k + 1, farmer_fields, farmer_crop, field_harvest_age, acc)
             ELSE plant_fields(
                    k + 1, farmer_fields, farmer_crop, field_harvest_age,
                    [acc EXCEPT !.plant[field + 1] = farmer_crop,
                                !.crop_harvest_age_days[field + 1] = field_harvest_age])

\* the loop of plant over the farmers with one slot starting today
RECURSIVE plant_loop(_, _, _, _, _, _, _, _, _)
plant_loop(farmer_idx, day_index, calendar, rotation_year_index, cultivation_cost, index_rows, indices, interest_rate, acc) ==
    IF farmer_idx >= Len(calendar) \/ acc.err # "none" THEN acc
    ELSE LET slots == planting_farmers_per_season(
                        calendar, rotation_year_index, day_index, farmer_idx)
             farmer_crop_data ==
                 At(calendar, farmer_idx)[CHOOSE slot \in slots : TRUE]
             farmer_crop == farmer_crop_data[1]
             field_harvest_age == farmer_crop_data[3]
         IN  IF Cardinality(slots) # 1
             THEN plant_loop(farmer_idx + 1, day_index, calendar, rotation_year_index,
                             cultivation_cost, index_rows, indices, interest_rate, acc)
             ELSE IF farmer_crop = -1
             THEN [acc EXCEPT !.err = "AssertionError"]
             ELSE plant_loop(
                    farmer_idx + 1, day_index, calendar, rotation_year_index,
                    cultivation_cost, index_rows, indices, interest_rate,
                    plant_fields(
                      1, get_farmer_HRUs(indices, index_rows, farmer_idx),
                      farmer_crop, field_harvest_age,
                      add_input_loan(
                        acc, farmer_idx,
                        annual_cost_input_loan(cultivation_cost,
                                               At(interest_rate, farmer_idx)))))

\* a plant that leaves out the farmers with several slots starting today
plant_without_check(day_index, calendar, rotation_year_index, harvest_age_days, cultivation_cost, index_rows, indices, loans, tracker, interest_rate, farmers_going_out_of_business) ==
    plant_loop(0, day_index, calendar, rotation_year_index, cultivation_cost,
               index_rows, indices, interest_rate,
               [plant |-> [f \in 1..Len(harvest_age_days) |-> -1],
                crop_harvest_age_days |-> harvest_age_days,
                all_loans_annual_cost |-> loans,
                loan_tracker |-> tracker,
                err |-> IF Len(calendar) = 0 THEN "ValueError" ELSE "none"])

\* plant (the kernel): [plant, crop_harvest_age_days, all_loans_annual_cost,
\* loan_tracker, err]; the checks come before anything is written
plant(day_index, calendar, rotation_year_index, harvest_age_days, cultivation_cost, index_rows, indices, loans, tracker, interest_rate, farmers_going_out_of_business) ==
    LET acc == [plant |-> [f \in 1..Len(harvest_age_days) |-> -1],
                crop_harvest_age_days |-> harvest_age_days,
                all_loans_annual_cost |-> loans,
                loan_tracker |-> tracker,
                err |-> "none"]
    IN  IF farmers_going_out_of_business
        THEN [acc EXCEPT !.err = "AssertionError"]
        ELSE IF Len(calendar) = 0
        THEN \* the maximum of an empty array
             [acc EXCEPT !.err = "ValueError"]
        ELSE IF \E farmer_idx \in 0..(Len(calendar) - 1) :
                   Cardinality(planting_farmers_per_season(
                       calendar, rotation_year_index, day_index, farmer_idx)) > 1
        THEN \* Multiple crops planted on the same day
             [acc EXCEPT !.err = "AssertionError"]
        ELSE plant_loop(0, day_index, calendar, rotation_year_index, cultivation_cost,
                        index_rows, indices, interest_rate, acc)

\* model input: the cultivation cost is one number for all crops and regions
cultivation_cost == 820

\* CropFarmers.plant on the population and loans st
CropFarmers_plant(st, day_index) ==
    LET p == plant(day_index, data(crop_calendar, st.arrays_n),
                   data(current_crop_calendar_rotation_year_index, st.arrays_n),
                   st.crop_harvest_age_days, R(cultivation_cost),
                   data(st.field_indices_by_farmer, st.arrays_n), st.field_indices,
                   data(st.all_loans_annual_cost, st.arrays_n),
                   data(st.loan_tracker, st.arrays_n),
                   [a \in 1..st.n |-> Frac(1, 20)], FALSE)
        kernel == [st EXCEPT
                     !.crop_harvest_age_days = p.crop_harvest_age_days,
                     !.all_loans_annual_cost =
                         data_set(@, st.arrays_n, p.all_loans_annual_cost),
                     !.loan_tracker = data_set(@, st.arrays_n, p.loan_tracker)]
        crops == [f \in 1..Len(st.crop_map) |->
                    IF p.plant[f] >= 0 THEN p.plant[f] ELSE st.crop_map[f]]
        ages == [f \in 1..Len(st.crop_map) |->
                   IF p.plant[f] >= 0 THEN 1 ELSE st.crop_age_days_map[f]]
        planted == [kernel EXCEPT !.crop_map = crops, !.crop_age_days_map = ages]
    IN  IF p.err # "none" THEN [kernel EXCEPT !.err = p.err]
        ELSE IF \E f \in 1..Len(crops) : crops[f] > 0 /\ ages[f] < 0
        THEN [planted EXCEPT !.err = "AssertionError"]
        ELSE [planted EXCEPT
                !.land_use_type =
                    [f \in 1..Len(crops) |->
                       IF crops[f] < 0 THEN st.land_use_type[f]
                       ELSE IF crops[f] \in paddy_crops THEN PADDY_IRRIGATED
                       ELSE NON_PADDY_IRRIGATED]]

(***************************************************************************)
(* The yearly pass of the daily step                                       *)
(***************************************************************************)
\* config adaptation_well: the lifespan of a well in years
lifespan_well == 2

\* config adaptation_well: the years a loan for a well runs
well_loan_duration == 3

\* config adaptation_well: max_initial_sat_thickness, the depth of the first
\* wells and what a new well reaches below the water table
max_initial_sat_thickness == 10

\* model input: the yearly cost of a new well (calculate_well_costs_global)
well_annual_cost == 100

\* an advance that wraps every farmer at the longest rotation
advance_by_longest_rotation(rotation_year_index, rotation_years) ==
    [a \in 1..Len(rotation_year_index) |->
        (rotation_year_index[a] + 1)
            % (CHOOSE longest \in Range(rotation_years) :
                 \A other \in Range(rotation_years) : other <= longest)]

\* advance_crop_rotation_year: the new indices of the farmers
advance_crop_rotation_year(rotation_year_index, rotation_years) ==
    [a \in 1..Len(rotation_year_index) |->
        IF rotation_years[a] = 0 THEN 0
        ELSE (rotation_year_index[a] + 1) % rotation_years[a]]

\* CropFarmers.update_loans on the rows of the input loans and of the loans
\* for wells and for efficient irrigation: every running loan is a year
\* older, a loan that ends leaves the total
update_loans(loans, tracker) ==
    LET older(k) == IF k # 0 THEN k - 1 ELSE k
        loan_rows == {"input", "well", "efficiency"}
        new_tracker == [a \in 1..Len(tracker) |->
                          [row \in loan_rows |->
                             [i \in 1..5 |-> older(tracker[a][row][i])]]]
        ended_in(a, row) == RSum([i \in 1..5 |->
                                    IF new_tracker[a][row][i] = 0
                                    THEN loans[a][row][i] ELSE R(0)])
        ended(a) == RAdd(RAdd(ended_in(a, "input"), ended_in(a, "well")),
                         ended_in(a, "efficiency"))
    IN  [all_loans_annual_cost |->
             [a \in 1..Len(loans) |->
                [row \in loan_rows \cup {"total"} |->
                   IF row = "total" THEN RSub(loans[a].total, ended(a))
                   ELSE [i \in 1..5 |->
                           IF new_tracker[a][row][i] = 0 THEN R(0)
                           ELSE loans[a][row][i]]]],
         loan_tracker |-> new_tracker]

\* decision_module.calcEU_do_nothing: the expected utility of doing nothing
calcEU_do_nothing(extra_constraint) == [a \in 1..Len(extra_constraint) |-> 1]

\* decision_module.calcEU_adapt: the expected utilities adapting can have,
\* equal to or above that of doing nothing, and not above it where the extra
\* constraint fails
calcEU_adapt(extra_constraint) ==
    {SEUT_adapt \in [1..Len(extra_constraint) -> {1, 2}] :
        \A a \in 1..Len(extra_constraint) : SEUT_adapt[a] > 1 => extra_constraint[a]}

\* np.random.rand: uniform draws in [0, 1)
RandomValues == {Frac(1, 4), Frac(7, 10)}

\* seq[i] with the index of Python: a negative index counts from the end
PyAt(seq, i) == IF i < 0 THEN seq[Len(seq) + i + 1] ELSE seq[i + 1]

\* the row of all_loans_annual_cost and loan_tracker of an adaptation type
\* (adaptation_type + 1): 1 the wells, 2 the efficient irrigation
loan_row(adaptation_type) == IF adaptation_type = 1 THEN "well" ELSE "efficiency"

\* the decision without the intention threshold
decision_by_utility_alone(ad, has_adapted, SEUT_do_nothing, SEUT_adapt, random_values) ==
    [a \in 1..Len(has_adapted) |-> SEUT_adapt[a] > SEUT_do_nothing[a]]

\* update_adaptation_decision, the decision: the utility of adapting is the
\* higher one and the draw is below the intention factor, which is 0.3 higher
\* for a farmer with the adaptation in its social network
SEUT_adaptation_decision(ad, has_adapted, SEUT_do_nothing, SEUT_adapt, random_values) ==
    LET rows == 1..Len(has_adapted)
        network_has_adaptation ==
            [a \in rows |->
               \E k \in 1..Len(ad.social_network[a]) :
                  PyAt(has_adapted, ad.social_network[a][k]) = 1]
        intention_factor_adjusted ==
            [a \in rows |->
               IF network_has_adaptation[a]
               THEN RAdd(ad.intention_factor[a], Frac(3, 10))
               ELSE ad.intention_factor[a]]
    IN  [a \in rows |->
           /\ SEUT_adapt[a] > SEUT_do_nothing[a]
           /\ RLess(random_values[a], intention_factor_adjusted[a])]

\* CropFarmers.update_adaptation_decision on ad = [adapted, time_adapted,
\* all_loans_annual_cost, loan_tracker, social_network, intention_factor,
\* ...], the columns of the adaptation type; the decision is returned in
\* the field SEUT_adaptation_decision
update_adaptation_decision(ad, adaptation_type, has_adapted, loan_duration, annual_cost, SEUT_do_nothing, SEUT_adapt, random_values) ==
    LET rows == 1..Len(ad.adapted)
        decision == SEUT_adaptation_decision(ad, has_adapted, SEUT_do_nothing, SEUT_adapt,
                                             random_values)
        reset == [a \in rows |-> IF decision[a] THEN 0 ELSE ad.time_adapted[a]]
        row == loan_row(adaptation_type)
    IN  [ad EXCEPT
           !.adapted = [a \in rows |-> IF decision[a] THEN 1 ELSE ad.adapted[a]],
           !.time_adapted = [a \in rows |->
                               IF reset[a] # -1 THEN reset[a] + 1 ELSE reset[a]],
           !.all_loans_annual_cost =
               [a \in rows |->
                  IF decision[a]
                  THEN [ad.all_loans_annual_cost[a] EXCEPT
                          ![row][1] = RAdd(@, annual_cost),
                          !.total = RAdd(@, annual_cost)]
                  ELSE ad.all_loans_annual_cost[a]],
           !.loan_tracker =
               [a \in rows |->
                  IF decision[a]
                  THEN [ad.loan_tracker[a] EXCEPT ![row][1] = @ + loan_duration]
                  ELSE ad.loan_tracker[a]]]
        @@ [SEUT_adaptation_decision |-> decision]

\* the wells that have run their lifespan only
expired_by_lifespan(ad, groundwater_depth) ==
    [a \in 1..Len(ad.adapted) |-> ad.time_adapted[a] = lifespan_well]

\* adapt_irrigation_well: the adaptations that end at this evaluation
expired_adaptations(ad, groundwater_depth) ==
    [a \in 1..Len(ad.adapted) |->
        \/ ad.time_adapted[a] = lifespan_well
        \/ RLess(ad.well_depth[a], groundwater_depth[a])]

\* CropFarmers.adapt_irrigation_well on ad = [adapted, time_adapted,
\* irrigation_source, well_depth, all_loans_annual_cost, loan_tracker,
\* social_network, intention_factor] with the groundwater depth under the
\* farmers, the utilities of the decision module and the random draws
adapt_irrigation_well(ad, depth_under_farmers, SEUT_do_nothing, SEUT_adapt, random_values) ==
    LET rows == 1..Len(ad.adapted)
        groundwater_depth == [a \in rows |-> RMax(depth_under_farmers[a], R(0))]
        expired == expired_adaptations(ad, groundwater_depth)
        ended == [ad EXCEPT
                    !.adapted = [a \in rows |-> IF expired[a] THEN 0 ELSE ad.adapted[a]],
                    !.time_adapted =
                        [a \in rows |-> IF expired[a] THEN -1 ELSE ad.time_adapted[a]],
                    !.irrigation_source =
                        [a \in rows |->
                           IF expired[a] THEN "no" ELSE ad.irrigation_source[a]]]
        decided == update_adaptation_decision(
                     ended, 1, ended.adapted, well_loan_duration, R(well_annual_cost),
                     SEUT_do_nothing, SEUT_adapt, random_values)
    IN  [decided EXCEPT
           !.irrigation_source =
               [a \in rows |->
                  IF decided.SEUT_adaptation_decision[a] THEN "well"
                  ELSE decided.irrigation_source[a]],
           !.well_depth =
               [a \in rows |->
                  IF decided.SEUT_adaptation_decision[a]
                  THEN RAdd(R(max_initial_sat_thickness), groundwater_depth[a])
                  ELSE decided.well_depth[a]]]

\* config adaptation_sprinkler: the years a loan for efficient irrigation runs
sprinkler_loan_duration == 2

\* the yearly cost of the irrigation system of adapt_irrigation_efficiency
sprinkler_annual_cost == 60

\* var.lifespan_irrigation, read from the lifespan of adaptation_well
lifespan_irrigation == lifespan_well

\* adapt_irrigation_efficiency: expired_adaptations
expired_efficiency_adaptations(ad, has_irrigation_access) ==
    [a \in 1..Len(ad.adapted) |->
        \/ ad.time_adapted[a] = lifespan_irrigation
        \/ has_irrigation_access[a]]

\* adapt_irrigation_efficiency up to the decision: the expired adaptations
\* are reset
reset_expired_efficiency(ad, has_irrigation_access) ==
    LET rows == 1..Len(ad.adapted)
        expired == expired_efficiency_adaptations(ad, has_irrigation_access)
    IN  [ad EXCEPT
           !.adapted = [a \in rows |-> IF expired[a] THEN 0 ELSE ad.adapted[a]],
           !.time_adapted =
               [a \in rows |-> IF expired[a] THEN -1 ELSE ad.time_adapted[a]]]

\* CropFarmers.adapt_irrigation_efficiency on ad = [adapted, time_adapted,
\* all_loans_annual_cost, loan_tracker, social_network, intention_factor],
\* the columns of adaptation type 2, with the mask of the farmers that have
\* abstracted water in some year
adapt_irrigation_efficiency(ad, has_irrigation_access, SEUT_do_nothing, SEUT_adapt, random_values) ==
    LET ended == reset_expired_efficiency(ad, has_irrigation_access)
    IN  update_adaptation_decision(
          ended, 2, ended.adapted, sprinkler_loan_duration, R(sprinkler_annual_cost),
          SEUT_do_nothing, SEUT_adapt, random_values)

\* extra_constraint of adapt_irrigation_well: the well reaches the groundwater
well_reaches_groundwater(wells, depth_under_farmers) ==
    [a \in 1..Len(wells) |-> RLess(RMax(depth_under_farmers[a], R(0)), wells[a])]

(***************************************************************************)
(* The daily step as actions                                               *)
(***************************************************************************)
\* the first day of a year (month 1, day 1)
first_day_of_year == current_time.day_index = 0

\* model.spinup_start.year: the run starts in year 0
spinup_start_year == 0

\* what the harvest and the plant of a day write
SetFarmersAndLoans(st) ==
    /\ SetFarmers(st)
    /\ all_loans_annual_cost' = st.all_loans_annual_cost
    /\ loan_tracker' = st.loan_tracker

\* CropFarmers.step, first statement: self.harvest()
step_harvest ==
    /\ err = "none"
    /\ step_pc = "harvest"
    /\ f_op' = [name |-> "harvest", idx |-> -1]
    /\ f_pre' = FarmersAndLoans
    /\ SetFarmers(CropFarmers_harvest(Farmers))
    /\ step_pc' = "plant"
    /\ UNCHANGED <<all_loans_annual_cost, loan_tracker>>
    /\ UNCHANGED <<current_time, crop_calendar, crop_calendar_rotation_years,
                   current_crop_calendar_rotation_year_index, adapted, time_adapted,
                   adapted_efficiency, time_adapted_efficiency, config, yearly_pass>>

\* CropFarmers.step, second statement: self.plant(); the sums of the
\* abstraction that follow write none of the state followed here
step_plant ==
    /\ err = "none"
    /\ step_pc = "plant"
    /\ f_op' = [name |-> "plant", idx |-> -1]
    /\ f_pre' = FarmersAndLoans
    /\ SetFarmersAndLoans(CropFarmers_plant(FarmersAndLoans, current_time.day_index))
    /\ step_pc' = IF first_day_of_year THEN "yearly" ELSE "done"
    /\ UNCHANGED <<current_time, crop_calendar, crop_calendar_rotation_years,
                   current_crop_calendar_rotation_year_index, adapted, time_adapted,
                   adapted_efficiency, time_adapted_efficiency, config, yearly_pass>>

\* whether the yearly pass comes to the adaptation of the farmers
adaptation_enabled ==
    /\ ~config.spinup
    /\ "ruleset" \in DOMAIN config
    /\ config.ruleset # "no-adaptation"

\* farmer_yield_probability_relation as calculate_yield_spei_relation_group
\* leaves it: a row <<a, b>> per farmer with a history of yields; NaN where
\* the group of the farmer has fewer than two years to fit
YieldProbabilityRelations ==
    {<<>>, [a \in 1..n |-> <<NaN, NaN>>], [a \in 1..n |-> <<R(1), R(-1)>>]}

\* np.any(farmer_yield_probability_relation == 0) over the rows
relation_any_zero(relation) ==
    \E a \in 1..Len(relation) : relation[a] = <<R(0), R(0)>>

\* np.all(farmer_yield_probability_relation == 0)
relation_all_zero(relation) ==
    \A a \in 1..Len(relation) : relation[a] = <<R(0), R(0)>>

\* the groundwater depths under the fields of a farmer on an evaluation
GroundwaterDepths == {R(-1), R(10), R(20)}

\* the well adaptation as one value
WellAdaptation ==
    [adapted |-> data(adapted, arrays_n),
     time_adapted |-> data(time_adapted, arrays_n),
     irrigation_source |-> data(irrigation_source, arrays_n),
     well_depth |-> data(well_depth, arrays_n),
     all_loans_annual_cost |-> data(all_loans_annual_cost, arrays_n),
     loan_tracker |-> data(loan_tracker, arrays_n),
     social_network |-> data(social_network, arrays_n),
     intention_factor |-> data(intention_factor, arrays_n)]

\* the adaptation to efficient irrigation as one value, with the loans as
\* the routine of the wells has left them
EfficiencyAdaptation(wells) ==
    [adapted |-> data(adapted_efficiency, arrays_n),
     time_adapted |-> data(time_adapted_efficiency, arrays_n),
     all_loans_annual_cost |-> wells.all_loans_annual_cost,
     loan_tracker |-> wells.loan_tracker,
     social_network |-> data(social_network, arrays_n),
     intention_factor |-> data(intention_factor, arrays_n)]

\* a routine that is not evaluated decides nothing
Undecided(ad) == ad @@ [SEUT_adaptation_decision |-> [a \in 1..Len(ad.adapted) |-> FALSE]]

\* the utilities and the draws of one decision; the draw of a farmer whose
\* utility of adapting is not the higher one decides nothing, one value
\* stands for it
DecisionDraws(evaluated, extra_constraint) ==
    IF evaluated
    THEN {draw \in [SEUT_do_nothing : {calcEU_do_nothing(extra_constraint)},
                    SEUT_adapt : calcEU_adapt(extra_constraint),
                    random_values : [1..Len(extra_constraint) -> RandomValues]] :
            \A a \in 1..Len(extra_constraint) :
               draw.SEUT_adapt[a] <= draw.SEUT_do_nothing[a]
                  => draw.random_values[a] = Frac(1, 4)}
    ELSE {[SEUT_do_nothing |-> calcEU_do_nothing(extra_constraint),
           SEUT_adapt |-> calcEU_do_nothing(extra_constraint),
           random_values |-> [a \in 1..Len(extra_constraint) |-> Frac(1, 4)]]}

\* the adaptation routines of the yearly pass in the order of the code,
\* those of the configuration only
adaptation_routines ==
    SelectSeq(<<"adaptation_well", "adaptation_sprinkler",
                "adaptation_irrigation_expansion", "crop_switching">>,
              LAMBDA routine : config[routine] # "no-adaptation")

\* adapt_crops: the farmers that switch take over the calendar of another
\* farmer
switched_calendars(calendar, new_id) ==
    [a \in 1..Len(calendar) |-> calendar[new_id[a]]]

\* the end of the yearly pass: the rotation year advances, the loans are a
\* year older
yearly_end(ad, calendar, efficient) ==
    LET loans == update_loans(efficient.all_loans_annual_cost, efficient.loan_tracker)
    IN  /\ crop_calendar' = data_set(crop_calendar, arrays_n, calendar)
        /\ current_crop_calendar_rotation_year_index' =
              data_set(current_crop_calendar_rotation_year_index, arrays_n,
                       advance_crop_rotation_year(
                         data(current_crop_calendar_rotation_year_index, arrays_n),
                         data(crop_calendar_rotation_years, arrays_n)))
        /\ all_loans_annual_cost' =
              data_set(all_loans_annual_cost, arrays_n, loans.all_loans_annual_cost)
        /\ loan_tracker' = data_set(loan_tracker, arrays_n, loans.loan_tracker)
        /\ adapted' = data_set(adapted, arrays_n, ad.adapted)
        /\ time_adapted' = data_set(time_adapted, arrays_n, ad.time_adapted)
        /\ adapted_efficiency' = data_set(adapted_efficiency, arrays_n, efficient.adapted)
        /\ time_adapted_efficiency' =
              data_set(time_adapted_efficiency, arrays_n, efficient.time_adapted)
        /\ irrigation_source' = data_set(irrigation_source, arrays_n, ad.irrigation_source)
        /\ well_depth' = data_set(well_depth, arrays_n, ad.well_depth)
        /\ err' = "none"
        /\ step_pc' = "done"

\* CropFarmers.step, the yearly actions of the first day of a year
step_yearly ==
    /\ err = "none"
    /\ step_pc = "yearly"
    /\ f_op' = [name |-> "yearly", idx |-> -1]
    /\ f_pre' = FarmersAndLoans
    /\ remaining_irrigation_limit_m3' =
          IF current_time.year - 1 > spinup_start_year
          THEN data_set(remaining_irrigation_limit_m3, arrays_n,
                        data(irrigation_limit_m3, arrays_n))
          ELSE remaining_irrigation_limit_m3
    /\ IF ~adaptation_enabled
       THEN /\ yearly_pass' =
                  [reached |-> FALSE,
                   remaining_irrigation_limit_m3 |->
                       data(remaining_irrigation_limit_m3, arrays_n),
                   rotation_year_index |->
                       data(current_crop_calendar_rotation_year_index, arrays_n)]
            /\ yearly_end(WellAdaptation, data(crop_calendar, arrays_n),
                          EfficiencyAdaptation(WellAdaptation))
       ELSE \E relation \in YieldProbabilityRelations :
              IF relation_all_zero(relation)
              THEN \* Cannot adapt without yield - probability relation
                   /\ yearly_pass' =
                         [reached |-> TRUE,
                          remaining_irrigation_limit_m3 |->
                              data(remaining_irrigation_limit_m3, arrays_n),
                          relation |-> relation,
                          evaluated |-> <<>>,
                          adaptation |-> WellAdaptation,
                          crop_calendar |-> data(crop_calendar, arrays_n),
                          rotation_year_index |->
                              data(current_crop_calendar_rotation_year_index, arrays_n)]
                   /\ err' = "AssertionError"
                   /\ UNCHANGED <<step_pc, crop_calendar,
                                  current_crop_calendar_rotation_year_index,
                                  all_loans_annual_cost, loan_tracker, adapted,
                                  time_adapted, adapted_efficiency,
                                  time_adapted_efficiency, irrigation_source, well_depth>>
              ELSE \E depth_under_farmers \in
                          IF config.adaptation_well # "no-adaptation"
                          THEN [1..arrays_n -> GroundwaterDepths]
                          ELSE {[a \in 1..arrays_n |-> R(0)]},
                      new_id \in
                          IF config.crop_switching # "no-adaptation"
                          THEN [1..arrays_n -> 1..arrays_n]
                          ELSE {[a \in 1..arrays_n |-> a]},
                      has_irrigation_access \in
                          IF config.adaptation_sprinkler # "no-adaptation"
                          THEN [1..arrays_n -> BOOLEAN]
                          ELSE {[a \in 1..arrays_n |-> FALSE]} :
                     \E wells \in
                          DecisionDraws(
                            config.adaptation_well # "no-adaptation",
                            well_reaches_groundwater(data(well_depth, arrays_n),
                                                     depth_under_farmers)),
                        sprinklers \in
                          DecisionDraws(
                            config.adaptation_sprinkler # "no-adaptation",
                            has_irrigation_access) :
                     \E adopted \in
                          {IF config.adaptation_well # "no-adaptation"
                           THEN adapt_irrigation_well(
                                  WellAdaptation, depth_under_farmers,
                                  wells.SEUT_do_nothing, wells.SEUT_adapt,
                                  wells.random_values)
                           ELSE Undecided(WellAdaptation)} :
                     \E efficient \in
                          {IF config.adaptation_sprinkler # "no-adaptation"
                           THEN adapt_irrigation_efficiency(
                                  EfficiencyAdaptation(adopted), has_irrigation_access,
                                  sprinklers.SEUT_do_nothing, sprinklers.SEUT_adapt,
                                  sprinklers.random_values)
                           ELSE Undecided(EfficiencyAdaptation(adopted))} :
                       /\ yearly_pass' =
                             [reached |-> TRUE,
                              remaining_irrigation_limit_m3 |->
                                  data(remaining_irrigation_limit_m3, arrays_n),
                              relation |-> relation,
                              evaluated |-> adaptation_routines,
                              groundwater_depth |-> depth_under_farmers,
                              well_depth |-> data(well_depth, arrays_n),
                              adaptation |-> WellAdaptation,
                              adopted |-> adopted,
                              decision |-> adopted.SEUT_adaptation_decision,
                              efficiency |-> EfficiencyAdaptation(adopted),
                              has_irrigation_access |-> has_irrigation_access,
                              efficient |-> efficient,
                              rotation_year_index |->
                                  data(current_crop_calendar_rotation_year_index,
                                       arrays_n)]
                       /\ yearly_end(
                            adopted,
                            IF config.crop_switching # "no-adaptation"
                            THEN switched_calendars(data(crop_calendar, arrays_n), new_id)
                            ELSE data(crop_calendar, arrays_n),
                            efficient)
    /\ UNCHANGED <<n, arrays_n, locations, elevation, social_network, field_indices_by_farmer,
                   field_indices, land_owners, crop_map, crop_age_days_map,
                   crop_harvest_age_days, land_use_type>>
    /\ UNCHANGED <<current_time, crop_calendar_rotation_years, config, irrigation_limit_m3,
                   intention_factor>>

\* the model moves to the next day; the record of the day's abstraction goes
next_day ==
    /\ err = "none"
    /\ step_pc = "done"
    /\ current_time.year < LastYear \/ current_time.day_index < YearLength - 1
    /\ current_time' =
          IF current_time.day_index = YearLength - 1
          THEN [year |-> current_time.year + 1, day_index |-> 0]
          ELSE [current_time EXCEPT !.day_index = @ + 1]
    /\ step_pc' = "harvest"
    /\ w_in' = <<>>
    /\ w_out' = <<>>
    /\ w_twin' = <<>>
    /\ UNCHANGED <<crop_calendar, crop_calendar_rotation_years,
                   current_crop_calendar_rotation_year_index, all_loans_annual_cost,
                   loan_tracker, adapted, time_adapted, adapted_efficiency, time_adapted_efficiency, config, yearly_pass>>

(***************************************************************************)
(* The farms at the start of a run                                         *)
(***************************************************************************)
\* an unused slot of a crop calendar
NoCrop == <<-1, -1, -1, -1>>

\* crop calendars of the farms file with their rotation lengths; a slot is
\* <<crop, start day, growth length, year of the rotation>>
SingleCrop ==
    [calendar |-> <<<<0, 1, 2, 0>>, NoCrop, NoCrop>>, rotation_years |-> 1]

TwoYearRotation ==
    [calendar |-> <<<<0, 0, 1, 0>>, <<1, 1, 1, 1>>, NoCrop>>, rotation_years |-> 2]

TwoCropsOneDay ==
    [calendar |-> <<<<0, 1, 1, 0>>, <<1, 1, 2, 0>>, NoCrop>>, rotation_years |-> 1]

ZeroGrowth ==
    [calendar |-> <<<<0, 0, 0, 0>>, NoCrop, NoCrop>>, rotation_years |-> 1]

\* three crops a year, one after the other, each harvested the day after
ThreeCrops ==
    [calendar |-> <<<<0, 0, 1, 0>>, <<1, 1, 1, 0>>, <<2, 2, 1, 0>>>>, rotation_years |-> 1]

SecondCropWhileGrowing ==
    [calendar |-> <<<<0, 0, 2, 0>>, <<1, 1, 1, 0>>, NoCrop>>, rotation_years |-> 1]

CropCalendars ==
    {SingleCrop, TwoYearRotation, TwoCropsOneDay, ZeroGrowth, SecondCropWhileGrowing}

\* the configuration of a run without adaptation
NoAdaptation ==
    [spinup |-> FALSE, ruleset |-> "no-adaptation",
     adaptation_well |-> "no-adaptation", adaptation_sprinkler |-> "no-adaptation",
     adaptation_irrigation_expansion |-> "no-adaptation",
     crop_switching |-> "no-adaptation"]

\* configurations: the spin-up flag, the ruleset of the farmers (the key may
\* be missing), and the rulesets of the four adaptations
Configurations ==
    {NoAdaptation,
     [NoAdaptation EXCEPT !.ruleset = "base"],
     [NoAdaptation EXCEPT !.ruleset = "base", !.adaptation_well = "base"],
     [NoAdaptation EXCEPT !.ruleset = "base", !.adaptation_well = "base",
                          !.spinup = TRUE],
     [NoAdaptation EXCEPT !.ruleset = "base", !.adaptation_well = "base",
                          !.adaptation_irrigation_expansion = "base",
                          !.crop_switching = "base"],
     [key \in DOMAIN NoAdaptation \ {"ruleset"} |->
        IF key = "spinup" THEN FALSE ELSE "base"]}

\* CropFarmers.spinup: the calendars, the loans and the adaptations of the
\* farmers on the first day of the run, before the step of that day; the
\* first farmer has a calendar of the set, the others take turns
InitDayIn(year, calendars, configurations) ==
    LET cap == Len(elevation)
        empty == [calendar |-> <<NoCrop, NoCrop, NoCrop>>, rotation_years |-> 0]
    IN  /\ current_time = [year |-> year, day_index |-> 0]
        /\ step_pc = "harvest"
        /\ \E first \in calendars, offset \in 0..1 :
             LET farm(a) == IF a > n THEN empty
                            ELSE IF a = 1 THEN first
                            ELSE IF a % 2 = 0 THEN TwoYearRotation
                            ELSE SingleCrop
             IN  /\ crop_calendar = [a \in 1..cap |-> farm(a).calendar]
                 /\ crop_calendar_rotation_years =
                       [a \in 1..cap |-> farm(a).rotation_years]
                 \* np.random.randint(0, crop_calendar_rotation_years)
                 /\ current_crop_calendar_rotation_year_index =
                       [a \in 1..cap |->
                          IF a > n THEN 0
                          ELSE (a - 1 + offset) % farm(a).rotation_years]
        /\ all_loans_annual_cost =
              [a \in 1..cap |->
                 [input |-> [i \in 1..5 |-> R(0)], well |-> [i \in 1..5 |-> R(0)],
                  efficiency |-> [i \in 1..5 |-> R(0)], total |-> R(0)]]
        /\ loan_tracker =
              [a \in 1..cap |->
                 [input |-> [i \in 1..5 |-> 0], well |-> [i \in 1..5 |-> 0],
                  efficiency |-> [i \in 1..5 |-> 0]]]
        /\ adapted =
              [a \in 1..cap |-> IF a <= n /\ irrigation_source[a] = "well" THEN 1 ELSE 0]
        /\ time_adapted =
              [a \in 1..cap |-> IF a <= n /\ irrigation_source[a] = "well" THEN 1 ELSE -1]
        \* the first farmer of an irrigated farm irrigates at 90 % efficiency
        /\ adapted_efficiency =
              [a \in 1..cap |-> IF a = 1 /\ irrigation_source[a] # "no" THEN 1 ELSE 0]
        /\ time_adapted_efficiency =
              [a \in 1..cap |-> IF a = 1 /\ irrigation_source[a] # "no" THEN 1 ELSE -1]
        /\ config \in configurations
        /\ yearly_pass = <<>>

\* a run that starts with the spin-up
InitDay(calendars, configurations) ==
    InitDayIn(spinup_start_year, calendars, configurations)

(***************************************************************************)
(* Specifications                                                          *)
(***************************************************************************)
NextStore ==
    /\ UNCHANGED <<index_vars, farmer_vars, order_vars, water_vars, attribute_vars, day_vars>>
    /\ \/ StoreArray_init_input
       \/ StoreArray_init_dtype
       \/ n_setter
       \/ getitem
       \/ setitem
       \/ perform_operation_inplace
       \/ perform_operation
       \/ compare
       \/ array_ufunc_reduce
       \/ array
       \/ AgentArray_new
       \/ AgentArray_n_setter

InitStore ==
    StoreIdle /\ IndexIdle /\ FarmersIdle /\ OrderIdle /\ InitWater /\ AttributesIdle /\ DayIdle

\* the agent store under any sequence of its operations
SpecStore == InitStore /\ [][NextStore]_vars

NextIndex ==
    IndexCall /\ UNCHANGED <<store_vars, farmer_vars, order_vars, water_vars,
                              attribute_vars, day_vars>>

InitIndex ==
    StoreIdle /\ IndexIdle /\ FarmersIdle /\ OrderIdle /\ InitWater /\ AttributesIdle /\ DayIdle

\* update_field_indices_numba applied to every owner array
SpecIndex == InitIndex /\ [][NextIndex]_vars

NextAgents ==
    \/ remove_agent_call /\ UNCHANGED <<store_vars, index_vars, order_vars, water_vars,
                                         attribute_vars, day_vars>>
    \/ remove_agents_call /\ UNCHANGED <<store_vars, index_vars, order_vars, water_vars,
                                          attribute_vars, day_vars>>
    \/ add_agent_call /\ UNCHANGED <<store_vars, index_vars, order_vars, water_vars,
                                      attribute_vars, day_vars>>
    \/ activation_order_read /\ UNCHANGED <<store_vars, index_vars, water_vars,
                                             attribute_vars, day_vars>>

InitAgents ==
    StoreIdle /\ IndexIdle /\ InitFarmers /\ InitOrder /\ InitWater /\ AttributesIdle /\ DayIdle

\* the population under removals, additions and reads of the activation order
SpecAgents == InitAgents /\ [][NextAgents]_vars

NextWater ==
    \/ activation_order_read /\ w_in = <<>>
          /\ UNCHANGED <<store_vars, index_vars, water_vars, attribute_vars, day_vars>>
    \/ CropFarmers_abstract_water /\ UNCHANGED <<store_vars, index_vars, day_vars>>
    \/ abstract_water_call /\ UNCHANGED <<store_vars, index_vars, attribute_vars, day_vars>>

\* farmers of one elevation, in fixed-activation-order mode
InitWaterRuns ==
    /\ StoreIdle
    /\ IndexIdle
    /\ InitPopulation(OwnerArrays(NFields), {1}, TRUE)
    /\ InitOrder
    /\ fix_activation_order
    /\ InitWater
    /\ InitAttributes({NaN})
    /\ DayIdle

\* abstraction runs over a population that does not change
SpecWater == InitWaterRuns /\ [][NextWater]_vars

\* the day's steps of the crop farmers
NextDay ==
    \/ step_harvest /\ UNCHANGED <<store_vars, index_vars, order_vars, water_vars,
                                    attribute_vars>>
    \/ step_plant /\ UNCHANGED <<store_vars, index_vars, order_vars, water_vars,
                                  attribute_vars>>
    \/ step_yearly /\ UNCHANGED <<store_vars, index_vars, order_vars, water_vars>>
    \/ next_day /\ UNCHANGED <<store_vars, index_vars, farmer_vars, order_vars,
                                attribute_vars>>

\* farms with any of the calendars, without adaptation and without limits
InitCrops ==
    /\ StoreIdle
    /\ IndexIdle
    /\ InitPopulation(OwnerArrays(NFields), {1}, FALSE)
    /\ InitOrder
    /\ fix_activation_order
    /\ InitWater
    /\ InitAttributes({NaN})
    /\ InitDay(CropCalendars, {NoAdaptation})

\* the phenology of the fields over the days of the run
SpecCrops == InitCrops /\ [][NextDay]_vars

\* the days of the farmers with the abstraction of the day: the hydrology
\* calls abstract_water once a day, after the step of the farmers
NextLimit ==
    \/ step_harvest /\ UNCHANGED <<store_vars, index_vars, order_vars, water_vars,
                                    attribute_vars>>
    \/ step_plant /\ UNCHANGED <<store_vars, index_vars, order_vars, water_vars,
                                  attribute_vars>>
    \/ step_yearly /\ UNCHANGED <<store_vars, index_vars, order_vars, water_vars>>
    \/ CropFarmers_abstract_water /\ step_pc = "done"
          /\ UNCHANGED <<store_vars, index_vars, day_vars>>
    \/ next_day /\ UNCHANGED <<store_vars, index_vars, farmer_vars, order_vars,
                                attribute_vars>>

\* the yearly irrigation limits a farmer can have been given: none, one that
\* a year of irrigation exhausts, one that it does not
IrrigationLimits == {NaN, R(100), R(1000)}

\* the farms followed over the years: one farmer or two farmers in turns, and
\* a last field that nobody owns
FarmLayouts ==
    {lo \in OwnerArrays(NFields) :
        /\ \/ \A f \in 1..(NFields - 1) : lo[f] = 0
           \/ \A f \in 1..(NFields - 1) : lo[f] = (f - 1) % 2
        /\ lo[NFields] = -1}

\* farms with one crop a year and a yearly irrigation limit
InitLimit ==
    /\ StoreIdle
    /\ IndexIdle
    /\ InitPopulation(FarmLayouts, {1}, FALSE)
    /\ InitOrder
    /\ fix_activation_order
    /\ InitWater
    /\ InitAttributes(IrrigationLimits)
    /\ InitDay({SingleCrop}, {NoAdaptation})

\* the remaining irrigation limit over the years of a run
SpecLimit == InitLimit /\ [][NextLimit]_vars

\* farms with wells, canals or rain only under every configuration of the
\* adaptation, on the first day of the year before the last
InitYear ==
    /\ StoreIdle
    /\ IndexIdle
    /\ InitPopulation(FarmLayouts, {1}, FALSE)
    /\ InitOrder
    /\ fix_activation_order
    /\ InitWater
    /\ InitAttributes({NaN})
    /\ InitDayIn(LastYear - 1, {SingleCrop}, Configurations)

\* the yearly passes of a run
SpecYear == InitYear /\ [][NextDay]_vars

\* the farmers decide on wells only
WellsOnly == [NoAdaptation EXCEPT !.ruleset = "base", !.adaptation_well = "base"]

\* farms with three crops a year that decide on wells, from the first day of
\* the second year before the last
InitLoans ==
    /\ StoreIdle
    /\ IndexIdle
    /\ InitPopulation(FarmLayouts, {1}, FALSE)
    /\ InitOrder
    /\ fix_activation_order
    /\ InitWater
    /\ InitAttributes({NaN})
    /\ InitDayIn(LastYear - 2, {ThreeCrops}, {WellsOnly})

\* the loans of the farmers over the years
SpecLoans == InitLoans /\ [][NextDay]_vars

(***************************************************************************)
(* Claims about the agent store                                            *)
(***************************************************************************)
\* C1: for every agent-store array, after any sequence of constructions and
\* direct assignments to n, 0 <= n <= max_n; an assignment that is rejected
\* with an error leaves n as it was.
C1_CountWithinCapacity ==
    /\ 0 <= s_n
    /\ s_n <= Len(s_data)
    /\ (s_op = "n_setter" /\ s_err = "ValueError") => s_n = s_pre.n

\* the consumer operations of a store array
ConsumerOps == {"getitem", "setitem", "iadd", "add", "compare", "reduce", "array"}

\* C2: no consumer operation on a store array observes or modifies a backing
\* row with index >= n: what it returns is the same whatever the rows
\* [n, max_n) hold, and it leaves those rows unchanged.
C2_LogicalWindowOnly ==
    (s_op \in ConsumerOps /\ s_err = "none" /\ 0 <= s_n /\ s_n <= Len(s_data)) =>
        /\ s_res = s_twin
        /\ \A i \in (s_n + 1)..Len(s_data) : s_data[i] = s_pre.data[i]

(***************************************************************************)
(* Claims about the field-to-agent index                                   *)
(***************************************************************************)
\* the field ids of the owner array handed in
C3_Fields == 0..(Len(index_in) - 1)

\* the fields in the slice of agent a, as get_farmer_HRUs returns them
C3_Slice(a) == get_farmer_HRUs(index_out.field_indices, index_out.by_farmer, a)

\* C3: for every field-owner array, update_field_indices_numba returns a
\* compact array and per-agent [start, end) offsets such that the slice of
\* every agent holds exactly the fields that agent owns, each once, and no
\* unowned field is in the compact array.
C3_IndexListsOwnedFields ==
    index_out # <<>> =>
        /\ ~index_out.oob
        /\ \A a \in {index_in[i] : i \in 1..Len(index_in)} \ {-1} :
             /\ {C3_Slice(a)[k] : k \in 1..Len(C3_Slice(a))}
                  = {f \in C3_Fields : At(index_in, f) = a}
             /\ Len(C3_Slice(a)) = Cardinality({f \in C3_Fields : At(index_in, f) = a})
        /\ \A k \in 1..Len(index_out.field_indices) :
             /\ index_out.field_indices[k] \in C3_Fields
             /\ At(index_in, index_out.field_indices[k]) # -1

(***************************************************************************)
(* Claims about the population                                             *)
(***************************************************************************)
PopulationOps == {"remove_agent", "remove_agents", "add_agent"}

\* the fields that agent a owns according to the owner array lo
FieldsOf(lo, a) == {f \in 0..(Len(lo) - 1) : At(lo, f) = a}

\* C4: after a removal (remove_agent, remove_agents) or an addition that
\* returned, the owner of every field is -1 or an index below the agent
\* count n.
C4_OwnersAreLiveAgents ==
    (f_op.name \in PopulationOps /\ err = "none")
        => \A f \in Fields : At(land_owners, f) = -1 \/ At(land_owners, f) < n

\* C5: remove_agent(i) on n agents that returned leaves n - 1 agents; the
\* fields of i are unowned and fallow; when i was not the last agent, slot i
\* holds the attributes of the former last agent and owns exactly its
\* fields; the other agents keep their attributes and fields; the index
\* lists for every agent the fields it owns.
C5_RemoveSwapsLastIntoSlot ==
    (f_op.name = "remove_agent" /\ err = "none") =>
        LET i == f_op.idx
            last == f_pre.n - 1
            removed == FieldsOf(f_pre.land_owners, i)
        IN  /\ n = f_pre.n - 1
            /\ arrays_n = n
            /\ \A f \in removed :
                  /\ At(land_owners, f) = -1
                  /\ At(crop_map, f) = -1
                  /\ At(crop_age_days_map, f) = -1
                  /\ At(crop_harvest_age_days, f) = -1
                  /\ At(land_use_type, f) = GRASSLAND_LIKE
            /\ i # last =>
                  /\ At(locations, i) = At(f_pre.locations, last)
                  /\ At(elevation, i) = At(f_pre.elevation, last)
                  /\ FieldsOf(land_owners, i) = FieldsOf(f_pre.land_owners, last)
            /\ \A a \in (0..(n - 1)) \ {i} :
                  /\ At(locations, a) = At(f_pre.locations, a)
                  /\ At(elevation, a) = At(f_pre.elevation, a)
                  /\ FieldsOf(land_owners, a) = FieldsOf(f_pre.land_owners, a)
            /\ \A f \in Fields \ removed :
                  /\ At(crop_map, f) = At(f_pre.crop_map, f)
                  /\ At(land_use_type, f) = At(f_pre.land_use_type, f)
            /\ \A a \in 0..(n - 1) :
                  LET listed == get_farmer_HRUs(field_indices,
                                    data(field_indices_by_farmer, arrays_n), a)
                  IN  /\ Range(listed) = FieldsOf(land_owners, a)
                      /\ Len(listed) = Cardinality(FieldsOf(land_owners, a))

RunOps == {"CropFarmers.abstract_water", "abstract_water"}

\* a run that returned
RunReturned == f_op.name \in RunOps /\ w_out.err = "none"

\* the fields of farmer a as the kernel sees them
RunFields(a) == get_farmer_HRUs(w_in.field_indices, w_in.field_indices_by_farmer, a)

\* the irrigation demand of farmer a in m3: potential consumption over
\* efficiency, times cell area, summed over its fields
RunDemand(a) ==
    LET pot == potential_irrigation_consumption(RunFields(a), a, w_in).potential
    IN  RSum([k \in 1..Len(RunFields(a)) |->
                RMul(RDiv(pot[k], At(w_in.irrigation_efficiency, a)),
                     At(w_in.cell_area, RunFields(a)[k]))])

\* what the channel cell c can give when it holds storage: the part above
\* the reserve of 100 m3
AboveReserve(storage) == RMax(RSub(storage, R(100)), R(0))

TwoCanalFarmersShare(c) ==
    /\ RunReturned
    /\ n = 2
    /\ \A a \in {0, 1} :
         /\ At(w_in.surface_irrigated, a)
         /\ ~At(w_in.well_irrigated, a)
         /\ RunFields(a) # <<>>
         /\ \A k \in 1..Len(RunFields(a)) :
              At(w_in.nearest_river_grid_cell, RunFields(a)[k]) = c

\* C8: two canal farmers on one channel cell: the farmer earlier in the
\* activation order gets its demand as far as the storage above the reserve
\* goes, the later one gets what is then left above the reserve; no
\* withdrawal and no remaining storage is negative.
C8_EarlierFarmerDrawsFirst ==
    \A c \in GridCells :
      TwoCanalFarmersShare(c) =>
        LET first == activation_order[1]
            second == activation_order[2]
            storage == At(w_in.available_channel_storage_m3, c)
            got(a) == At(w_out.channel_abstraction_m3_by_farmer, a)
        IN  /\ got(first) = RMin(RunDemand(first), AboveReserve(storage))
            /\ got(second) = RMin(RunDemand(second),
                                  AboveReserve(RSub(storage, got(first))))
            /\ ~RLess(got(first), R(0))
            /\ ~RLess(got(second), R(0))
            /\ At(w_out.available_channel_storage_m3, c)
                 = RSub(storage, RAdd(got(first), got(second)))
            /\ ~RLess(At(w_out.available_channel_storage_m3, c), R(0))

\* the farmer activated first has one field and access to irrigation water
FirstFarmerOneField ==
    /\ RunReturned
    /\ n >= 1
    /\ Len(RunFields(activation_order[1])) = 1
    /\ access_loop(1, RunFields(activation_order[1]), activation_order[1], w_in, w_in).access

C10_AbstractionMatchesWithdrawal ==
    RunReturned =>
        RAdd(RAdd(RSum(w_out.channel_abstraction_m3_by_farmer),
                  RSum(w_out.reservoir_abstraction_m3_by_farmer)),
             RSum(w_out.groundwater_abstraction_m3_by_farmer))
          = RSum([f \in 1..Len(w_out.water_withdrawal_m) |->
                    RMul(w_out.water_withdrawal_m[f], w_in.cell_area[f])])

C8_Witness ==
    /\ TwoCanalFarmersShare(0)
    /\ At(w_in.available_channel_storage_m3, 0) = R(50)
    /\ RAdd(RunDemand(0), RunDemand(1)) = R(80)

C10_Witness ==
    /\ RunReturned
    /\ RLess(R(0), RSum(w_out.channel_abstraction_m3_by_farmer))
    /\ RLess(R(0), RSum(w_out.reservoir_abstraction_m3_by_farmer))
    /\ RLess(R(0), RSum(w_out.groundwater_abstraction_m3_by_farmer))
    /\ \E f \in 1..NFields :
         w_in.cell_area[f] = R(2) /\ RLess(R(0), w_out.water_withdrawal_m[f])

\* C11: after a run the withdrawal of every field is split into three parts
\* that are not negative: consumption = withdrawal x the irrigation
\* efficiency of its farmer, return flow = (withdrawal - consumption) x the
\* return fraction, and the addition to evapotranspiration = the rest; the
\* three add up to the withdrawal and consumption is at most the withdrawal.
C11_WithdrawalSplitsThreeWays ==
    RunReturned =>
        \A f \in 1..NFields :
            LET withdrawal == w_out.water_withdrawal_m[f]
                consumption == w_out.water_consumption_m[f]
                return_flow == w_out.returnFlowIrr_m[f]
                evapotranspiration == w_out.addtoevapotrans_m[f]
            IN  /\ land_owners[f] # -1 =>
                     consumption = RMul(withdrawal,
                                        At(w_in.irrigation_efficiency, land_owners[f]))
                /\ return_flow = RMul(RSub(withdrawal, consumption), w_in.return_fraction)
                /\ evapotranspiration = RSub(RSub(withdrawal, consumption), return_flow)
                /\ RAdd(RAdd(consumption, return_flow), evapotranspiration) = withdrawal
                /\ ~RLess(withdrawal, consumption)
                /\ ~RLess(consumption, R(0))
                /\ ~RLess(return_flow, R(0))
                /\ ~RLess(evapotranspiration, R(0))

\* a run in which a field of a farmer with irrigation efficiency 1/2 got
\* water, so that it has consumption, return flow and evapotranspiration
C11_Witness ==
    /\ RunReturned
    /\ \E f \in 1..NFields :
         /\ land_owners[f] # -1
         /\ At(w_in.irrigation_efficiency, land_owners[f]) = Frac(1, 2)
         /\ RLess(R(0), w_out.water_withdrawal_m[f])
         /\ RLess(R(0), w_out.returnFlowIrr_m[f])
         /\ RLess(R(0), w_out.addtoevapotrans_m[f])

\* the pools a run starts from hold no negative volume
PoolsStartNonNegative ==
    /\ \A c \in 1..Len(w_in.available_channel_storage_m3) :
           ~RLess(w_in.available_channel_storage_m3[c], R(0))
    /\ \A c \in 1..Len(w_in.available_groundwater_m3) :
           ~RLess(w_in.available_groundwater_m3[c], R(0))
    /\ \A c \in 1..Len(w_in.available_reservoir_storage_m3) :
           ~RLess(w_in.available_reservoir_storage_m3[c], R(0))

\* C12: a run that starts from pools that are not negative, whether it returns
\* or stops at an assertion of the kernel, takes no negative
\* volume in any single withdrawal and leaves no pool negative after any of
\* them; the withdrawal of every field and the abstraction of every farmer
\* from every source are not negative, and neither is any pool at the end.
C12_NothingNegative ==
    (f_op.name \in RunOps /\ "withdrawals" \in DOMAIN w_out /\ PoolsStartNonNegative)
    =>  /\ \A k \in 1..Len(w_out.withdrawals) :
              /\ ~RLess(w_out.withdrawals[k].m3, R(0))
              /\ ~RLess(w_out.withdrawals[k].storage, R(0))
        /\ \A f \in 1..Len(w_out.water_withdrawal_m) :
              ~RLess(w_out.water_withdrawal_m[f], R(0))
        /\ \A a \in 1..Len(w_out.channel_abstraction_m3_by_farmer) :
              /\ ~RLess(w_out.channel_abstraction_m3_by_farmer[a], R(0))
              /\ ~RLess(w_out.reservoir_abstraction_m3_by_farmer[a], R(0))
              /\ ~RLess(w_out.groundwater_abstraction_m3_by_farmer[a], R(0))
        /\ \A c \in 1..Len(w_out.available_channel_storage_m3) :
              ~RLess(w_out.available_channel_storage_m3[c], R(0))
        /\ \A c \in 1..Len(w_out.available_groundwater_m3) :
              ~RLess(w_out.available_groundwater_m3[c], R(0))
        /\ \A c \in 1..Len(w_out.available_reservoir_storage_m3) :
              ~RLess(w_out.available_reservoir_storage_m3[c], R(0))

\* a run in which a channel below its reserve was asked for water and the
\* reservoir and the groundwater were emptied
C12_Witness ==
    /\ RunReturned
    /\ PoolsStartNonNegative
    /\ \E k \in 1..Len(w_out.withdrawals) :
          /\ w_out.withdrawals[k].source = "channel"
          /\ w_out.withdrawals[k].m3 = R(0)
          /\ w_out.withdrawals[k].storage = R(50)
    /\ \E k \in 1..Len(w_out.withdrawals) :
          /\ w_out.withdrawals[k].source = "reservoir"
          /\ RLess(R(0), w_out.withdrawals[k].m3)
          /\ w_out.withdrawals[k].storage = R(0)
    /\ \E k \in 1..Len(w_out.withdrawals) :
          /\ w_out.withdrawals[k].source = "groundwater"
          /\ RLess(R(0), w_out.withdrawals[k].m3)

(***************************************************************************)
(* Claims about the phenology of the fields                                *)
(***************************************************************************)
\* a daily step has run to its end
StepDone == step_pc = "done" /\ err = "none"

\* C14: after every daily step (harvest then plant), for any crop calendar,
\* every field with an active crop has 0 <= crop_age_days <= crop_harvest_age_days.
C14_AgeWithinHarvestAge ==
    StepDone =>
        \A f \in 1..NFields :
            crop_map[f] >= 0 =>
                /\ 0 <= crop_age_days_map[f]
                /\ crop_age_days_map[f] <= crop_harvest_age_days[f]

\* the crop state of field f before the last harvest or plant
Before(f) ==
    [crop |-> f_pre.crop_map[f], age |-> f_pre.crop_age_days_map[f],
     harvest_age |-> f_pre.crop_harvest_age_days[f],
     land_use |-> f_pre.land_use_type[f]]

\* the crop state of field f now
Now(f) ==
    [crop |-> crop_map[f], age |-> crop_age_days_map[f],
     harvest_age |-> crop_harvest_age_days[f], land_use |-> land_use_type[f]]

\* field f was growing a crop whose age had reached the harvest age
Ripe(f) == Before(f).crop >= 0 /\ Before(f).age = Before(f).harvest_age

\* C15: a growing field is harvested in exactly the daily step in which its
\* crop age equals its harvest age, and in no other step: the harvest returns
\* it to fallow (no crop, age and harvest age cleared, grassland-like), every
\* other growing field ages by exactly one day, and between two harvests the
\* crop state changes only where plant starts a crop at age 1.
C15_HarvestAtHarvestAge ==
    /\ (f_op.name = "harvest" /\ err = "none") =>
          \A f \in 1..NFields :
              IF Ripe(f)
              THEN Now(f) = [crop |-> -1, age |-> -1, harvest_age |-> -1,
                             land_use |-> GRASSLAND_LIKE]
              ELSE IF Before(f).crop >= 0
              THEN Now(f) = [Before(f) EXCEPT !.age = @ + 1]
              ELSE Now(f) = Before(f)
    /\ (f_op.name = "plant" /\ err = "none") =>
          \A f \in 1..NFields :
              \/ Now(f).crop = Before(f).crop /\ Now(f).age = Before(f).age
              \/ Before(f).crop = -1 /\ Now(f).crop >= 0 /\ Now(f).age = 1
    /\ (f_op.name = "yearly") =>
          \A f \in 1..NFields : Now(f) = Before(f)

\* a harvest took one field of two growing ones and aged the other
C15_Witness ==
    /\ f_op.name = "harvest"
    /\ err = "none"
    /\ \E f, g \in 1..NFields :
          /\ Ripe(f)
          /\ Before(f).harvest_age >= 1
          /\ Now(f).crop = -1
          /\ Before(g).crop >= 0
          /\ ~Ripe(g)
          /\ Now(g).age = Before(g).age + 1

\* the slots of the owner of field f that start today in the owner's current
\* year of the rotation
SlotsOfOwner(f) ==
    IF land_owners[f] = -1 THEN {}
    ELSE {At(crop_calendar, land_owners[f])[slot] :
            slot \in planting_farmers_per_season(
                        crop_calendar, current_crop_calendar_rotation_year_index,
                        current_time.day_index, land_owners[f])}

\* the plant of the day has run and the day has not changed since
Planted == f_op.name = "plant" /\ err = "none" /\ step_pc # "harvest"

\* C16: in a daily plant step a field receives a new crop id and harvest age
\* if and only if its owner has a calendar slot whose planting day is today
\* and whose rotation year is the owner's current one, and the field is not
\* already growing a crop; crop id, age and harvest age of every field that
\* is already growing a crop are left unchanged.
C16_PlantIffSlotAndFallow ==
    Planted =>
        \A f \in 1..NFields :
            /\ (\E slot \in SlotsOfOwner(f) :
                    /\ Before(f).harvest_age = -1
                    /\ Now(f).crop = slot[1]
                    /\ Now(f).harvest_age = slot[3])
               <=> (SlotsOfOwner(f) # {} /\ Before(f).crop = -1)
            /\ (SlotsOfOwner(f) = {} \/ Before(f).crop # -1) =>
                   /\ Now(f).crop = Before(f).crop
                   /\ Now(f).age = Before(f).age
                   /\ Now(f).harvest_age = Before(f).harvest_age

\* the farmers with more than one slot that starts today in their current
\* year of the rotation
FarmersWithSeveralSlots ==
    {a \in 0..(n - 1) :
        Cardinality(planting_farmers_per_season(
            crop_calendar, current_crop_calendar_rotation_year_index,
            current_time.day_index, a)) > 1}

\* C17: if on some day a farmer's calendar has more than one slot whose
\* planting day is today and whose rotation year is the farmer's current one,
\* the plant step aborts with an assertion error instead of choosing one, and
\* no field's crop state and no loan entry has been modified by that step.
C17_SeveralSlotsAbort ==
    (f_op.name = "plant" /\ step_pc # "harvest" /\ FarmersWithSeveralSlots # {}) =>
        /\ err = "AssertionError"
        /\ \A f \in 1..NFields : Now(f) = Before(f)
        /\ all_loans_annual_cost = f_pre.all_loans_annual_cost
        /\ loan_tracker = f_pre.loan_tracker

\* plant aborted over the two slots of one farmer on a day on which another
\* farmer had a slot and a fallow field
C17_Witness ==
    /\ f_op.name = "plant"
    /\ err = "AssertionError"
    /\ FarmersWithSeveralSlots # {}
    /\ \E f \in 1..NFields :
          /\ land_owners[f] # -1
          /\ land_owners[f] \notin FarmersWithSeveralSlots
          /\ SlotsOfOwner(f) # {}
          /\ Before(f).crop = -1
          /\ (f - 1) \in Range(field_indices)

\* the yearly pass of the step has run to its end in this transition
YearlyPassed == step_pc = "yearly" /\ step_pc' = "done"

\* every farmer is in a year of its own rotation
IndexWithinRotation(rotation_year_index) ==
    \A a \in 1..n :
        /\ 0 <= rotation_year_index[a]
        /\ rotation_year_index[a] < crop_calendar_rotation_years[a]

\* C18: at each year boundary every farmer's rotation-year index becomes
\* (old index + 1) mod that farmer's own rotation length, whatever the other
\* farmers have; no other step changes it, and it stays within
\* [0, rotation length).
C18_RotationAdvances ==
    [][/\ IndexWithinRotation(current_crop_calendar_rotation_year_index)
       /\ IndexWithinRotation(current_crop_calendar_rotation_year_index')
       /\ \A a \in 1..n :
             current_crop_calendar_rotation_year_index'[a] =
                IF YearlyPassed
                THEN (current_crop_calendar_rotation_year_index[a] + 1)
                        % crop_calendar_rotation_years[a]
                ELSE current_crop_calendar_rotation_year_index[a]]_vars

\* a yearly pass took one farmer from the last year of a rotation of two
\* years back to the first, and left a farmer without rotation in year 0
C18_Witness ==
    /\ f_op.name = "yearly"
    /\ err = "none"
    /\ \E a, b \in 1..n :
          /\ crop_calendar_rotation_years[a] = 2
          /\ yearly_pass.rotation_year_index[a] = 1
          /\ current_crop_calendar_rotation_year_index[a] = 0
          /\ crop_calendar_rotation_years[b] = 1
          /\ current_crop_calendar_rotation_year_index[b] = 0


(***************************************************************************)
(* Claims about the irrigation limit                                       *)
(***************************************************************************)
\* the step is the abstraction of a day
Abstracted == w_in = <<>> /\ w_in' # <<>>

\* the volumes the abstraction that has run withdrew for the farmer, from
\* any source
withdrawn_m3(out, farmer) ==
    IF "withdrawals" \in DOMAIN out
    THEN LET own == SelectSeq(out.withdrawals, LAMBDA w : w.farmer = farmer)
         IN  RSum([k \in 1..Len(own) |-> own[k].m3])
    ELSE R(0)

\* the step is the reset of the limits on the first day of a year
LimitReset ==
    /\ step_pc = "yearly"
    /\ first_day_of_year
    /\ current_time.year - 1 > spinup_start_year

\* C13: for every farmer whose remaining irrigation limit is set (not NaN),
\* every step leaves the limit where it is or lowers it, but for the reset of
\* the first day of a year: the abstraction of a day lowers it by exactly the
\* volumes withdrawn for the farmer from channel, reservoir and groundwater,
\* the reset puts it back to the yearly limit, and no other step writes it.
C13_LimitOnlyLowered ==
    [][\A a \in 1..arrays_n :
         remaining_irrigation_limit_m3[a] # NaN =>
           IF Abstracted
           THEN /\ remaining_irrigation_limit_m3'[a] =
                      RSub(remaining_irrigation_limit_m3[a], withdrawn_m3(w_out', a - 1))
                /\ ~RLess(remaining_irrigation_limit_m3[a],
                          remaining_irrigation_limit_m3'[a])
           ELSE IF LimitReset
           THEN remaining_irrigation_limit_m3'[a] = irrigation_limit_m3[a]
           ELSE remaining_irrigation_limit_m3'[a] = remaining_irrigation_limit_m3[a]]_vars

\* the reset of a year puts a limit back that the withdrawals of the year
\* before had lowered
C13_Witness ==
    /\ err = "none"
    /\ f_op.name = "yearly"
    /\ step_pc = "done"
    /\ \E a \in 1..arrays_n :
          /\ yearly_pass.remaining_irrigation_limit_m3[a] # NaN
          /\ RLess(yearly_pass.remaining_irrigation_limit_m3[a],
                   remaining_irrigation_limit_m3[a])
          /\ remaining_irrigation_limit_m3[a] = irrigation_limit_m3[a]

(***************************************************************************)
(* Claims about the yearly adaptation                                      *)
(***************************************************************************)
\* the last yearly pass evaluated the routine
Evaluated(routine) ==
    /\ yearly_pass # <<>>
    /\ yearly_pass.reached
    /\ \E k \in 1..Len(yearly_pass.evaluated) : yearly_pass.evaluated[k] = routine

\* the well of the farmer was shallower than the groundwater under its fields
\* when the well adaptation was evaluated
WellShallower(a) ==
    RLess(yearly_pass.well_depth[a], RMax(yearly_pass.groundwater_depth[a], R(0)))

RelationMissing ==
    /\ yearly_pass # <<>>
    /\ yearly_pass.reached
    /\ \A a \in 1..Len(yearly_pass.relation) : yearly_pass.relation[a] = <<R(0), R(0)>>

\* C20: when the yearly pass comes to the adaptation (adaptation enabled, not
\* in spin-up) and there is no yield-probability relation, the step ends with
\* an AssertionError, none of the adaptation routines has been evaluated, and
\* the wells, the loans and the crop calendars are as they were.
C20_NoRelationAborts ==
    RelationMissing =>
        /\ err = "AssertionError"
        /\ step_pc = "yearly"
        /\ yearly_pass.evaluated = <<>>
        /\ WellAdaptation = yearly_pass.adaptation
        /\ data(crop_calendar, arrays_n) = yearly_pass.crop_calendar

\* the pass was aborted for a farm with a well, configured to evaluate
\* routines
C20_Witness ==
    /\ RelationMissing
    /\ err = "AssertionError"
    /\ adaptation_routines # <<>>
    /\ \E a \in 1..arrays_n : adapted[a] = 1

(***************************************************************************)
(* Claims about the sources of a field                                     *)
(***************************************************************************)
\* a run of the kernel has left its history
RunRecorded == f_op.name \in RunOps /\ "withdrawals" \in DOMAIN w_out

\* the withdrawals of the run from the source
WithdrawalsFrom(source) ==
    SelectSeq(w_out.withdrawals, LAMBDA w : w.source = source)

\* C21: in every run each channel cell holds, after every channel withdrawal
\* and at the end of the run, at least min(its storage at the start of the
\* run, 100 m3), and the channel withdrawals from a cell that starts at or
\* below 100 m3 are all 0 m3 and leave its storage as it was.
C21_ChannelReserveKept ==
    RunRecorded =>
        /\ \A c \in GridCells :
             LET start == At(w_in.available_channel_storage_m3, c)
                 end == At(w_out.available_channel_storage_m3, c)
             IN  /\ ~RLess(end, RMin(start, R(100)))
                 /\ ~RLess(R(100), start) => end = start
        /\ \A k \in 1..Len(WithdrawalsFrom("channel")) :
             LET w == WithdrawalsFrom("channel")[k]
                 start == At(w_in.available_channel_storage_m3, w.pool)
             IN  /\ ~RLess(w.storage, RMin(start, R(100)))
                 /\ ~RLess(R(100), start) => w.m3 = R(0)

\* a cell that started above the reserve was drawn down to exactly 100 m3 and
\* a later channel withdrawal from it got nothing
C21_Witness ==
    /\ RunRecorded
    /\ w_out.err = "none"
    /\ \E k, l \in 1..Len(WithdrawalsFrom("channel")) :
          LET w == WithdrawalsFrom("channel")[k]
              later == WithdrawalsFrom("channel")[l]
          IN  /\ k < l
              /\ later.pool = w.pool
              /\ RLess(R(0), w.m3)
              /\ w.storage = R(100)
              /\ later.m3 = R(0)
              /\ later.storage = R(100)

\* C22: every reservoir withdrawal of a run that takes water is for a field
\* that lies in a command area itself, and is taken from the reservoir of
\* that command area, whatever the other fields of its farmer.
C22_ReservoirOnlyInCommandArea ==
    RunRecorded =>
        \A k \in 1..Len(WithdrawalsFrom("reservoir")) :
            LET w == WithdrawalsFrom("reservoir")[k]
            IN  RLess(R(0), w.m3) =>
                    /\ At(reservoir_command_areas, w.field) # -1
                    /\ At(reservoir_command_areas, w.field) = w.pool

\* C23: every channel withdrawal of a run is taken from the nearest-river
\* grid cell of the field it is for, also for a farmer whose fields have
\* different nearest-river cells.
C23_ChannelFromOwnNearestCell ==
    RunRecorded =>
        \A k \in 1..Len(WithdrawalsFrom("channel")) :
            LET w == WithdrawalsFrom("channel")[k]
            IN  w.pool = At(w_in.nearest_river_grid_cell, w.field)

(***************************************************************************)
(* Claims about the loans                                                  *)
(***************************************************************************)
\* the first of the four loan slots that holds no loan, 0 if there is none
next_free_slot(slots) ==
    IF \A i \in 1..4 : slots[i] # R(0) THEN 0
    ELSE CHOOSE i \in 1..4 : slots[i] = R(0) /\ \A j \in 1..(i - 1) : slots[j] # R(0)

\* C24: a farmer who adopts a well in the yearly decision has, when the well
\* routine returns, the annuity and the loan duration in the first well-loan
\* slot that was free, every other loan slot as before, and the annuity added
\* to its total annual cost.
C24_LoanInNextFreeSlot ==
    Evaluated("adaptation_well") =>
        \A a \in 1..arrays_n :
            LET loans == yearly_pass.adaptation.all_loans_annual_cost[a]
                tracker == yearly_pass.adaptation.loan_tracker[a]
                slot == next_free_slot(loans.well)
            IN  (yearly_pass.decision[a] /\ slot # 0) =>
                    /\ yearly_pass.adopted.all_loans_annual_cost[a] =
                          [loans EXCEPT !.well[slot] = R(well_annual_cost),
                                        !.total = RAdd(@, R(well_annual_cost))]
                    /\ yearly_pass.adopted.loan_tracker[a] =
                          [tracker EXCEPT !.well[slot] = well_loan_duration]

\* the sum of the annual costs in the loan slots of a farmer
loan_slots_sum(loans) ==
    RAdd(RAdd(RSum(loans.input), RSum(loans.well)), RSum(loans.efficiency))

\* C27: whenever a step of the farmers has returned, the total annual cost of
\* every farmer equals the sum of the annual costs in its loan slots.
C27_TotalIsSumOfLoans ==
    err = "none" =>
        \A a \in 1..arrays_n :
            all_loans_annual_cost[a].total = loan_slots_sum(all_loans_annual_cost[a])

(***************************************************************************)
(* Claims about the expiry of wells                                        *)
(***************************************************************************)
\* C30: the evaluation of the well adaptation leaves the irrigation source
\* of every farmer that did not irrigate from a well, held no well
\* adaptation and did not adopt one in that evaluation as it was.
C30_ExpiryKeepsOtherSources ==
    Evaluated("adaptation_well") =>
        \A a \in 1..arrays_n :
            ( /\ yearly_pass.adaptation.irrigation_source[a] # "well"
              /\ yearly_pass.adaptation.adapted[a] = 0
              /\ ~yearly_pass.decision[a] )
            => yearly_pass.adopted.irrigation_source[a] =
                   yearly_pass.adaptation.irrigation_source[a]

(***************************************************************************)
(* Claims about the irrigation limit within one abstraction                *)
(***************************************************************************)
\* the remaining irrigation limits a run of the abstraction can find: none,
\* overdrawn, used up, smaller and larger than the demand of a day
RemainingLimits == {NaN, R(-50), R(0), R(30), R(1000)}

\* farms of one farmer or two in turns with a crop on every field, the
\* remaining limit of the farmers as the days before have left it
InitAllowance ==
    /\ StoreIdle
    /\ IndexIdle
    /\ InitPopulation(FarmLayouts, {1}, TRUE)
    /\ InitOrder
    /\ fix_activation_order
    /\ InitWater
    /\ \E source \in IrrigationSources :
          irrigation_source = [a \in 1..Len(elevation) |-> source]
    /\ well_depth = [a \in 1..Len(elevation) |-> R(10)]
    /\ \E limit \in RemainingLimits :
          /\ irrigation_limit_m3 = [a \in 1..Len(elevation) |-> limit]
          /\ remaining_irrigation_limit_m3 = [a \in 1..Len(elevation) |-> limit]
    /\ intention_factor = IntentionFactors(Len(elevation))
    /\ DayIdle

\* one abstraction under a remaining limit
SpecAllowance == InitAllowance /\ [][NextWater]_vars

\* what adjust_irrigation_to_limit made of the potential consumption of
\* farmer a in the run
RunAdjusted(a) ==
    LET pot == potential_irrigation_consumption(RunFields(a), a, w_in).potential
    IN  adjust_irrigation_to_limit(
          At(w_in.remaining_irrigation_limit_m3, a), w_in.day_index,
          At(w_in.later_deficit_m3, a), At(w_in.irrigation_efficiency, a), pot,
          RSum([k \in 1..Len(pot) |-> RMul(pot[k], At(w_in.cell_area, RunFields(a)[k]))]))

\* C28: in a run of the abstraction, for every farmer with fields and a set
\* remaining irrigation limit: if the limit is not negative, the adjustment
\* leaves the potential consumption of each field between 0 and what it was,
\* the volumes withdrawn for the farmer sum to at most the limit, and the
\* limit after the run is not negative; if the limit is negative, nothing is
\* withdrawn for the farmer.
C28_WithdrawalWithinLimit ==
    (RunRecorded /\ w_out.err = "none") =>
        \A a \in 0..(n - 1) :
            LET limit == At(w_in.remaining_irrigation_limit_m3, a)
                pot == potential_irrigation_consumption(RunFields(a), a, w_in).potential
            IN  (limit # NaN /\ RunFields(a) # <<>>) =>
                    IF RLess(limit, R(0))
                    THEN withdrawn_m3(w_out, a) = R(0)
                    ELSE /\ \A k \in 1..Len(pot) :
                              RLess(R(0), pot[k]) =>
                                /\ ~RLess(RunAdjusted(a).potential[k], R(0))
                                /\ ~RLess(pot[k], RunAdjusted(a).potential[k])
                         /\ ~RLess(limit, withdrawn_m3(w_out, a))
                         /\ ~RLess(At(w_out.remaining_irrigation_limit_m3, a), R(0))

\* a farmer with a limit smaller than its demand withdrew the whole limit
\* and less than its demand, while a farmer of a run with a negative limit
\* had a demand
C28_Witness ==
    /\ RunRecorded
    /\ w_out.err = "none"
    /\ \E a \in 0..(n - 1) :
          LET limit == At(w_in.remaining_irrigation_limit_m3, a)
          IN  /\ limit # NaN
              /\ RLess(R(0), limit)
              /\ RLess(limit, RunDemand(a))
              /\ RLess(R(0), withdrawn_m3(w_out, a))
              /\ \E k \in 1..Len(RunFields(a)) :
                    RLess(RunAdjusted(a).potential[k],
                          potential_irrigation_consumption(
                            RunFields(a), a, w_in).potential[k])

(***************************************************************************)
(* Claims about the adaptation to efficient irrigation                     *)
(***************************************************************************)
\* the configuration of a run that decides on efficient irrigation only
SprinklersOnly == [NoAdaptation EXCEPT !.ruleset = "base", !.adaptation_sprinkler = "base"]

\* farms that decide on efficient irrigation, from the first day of the year
\* before the last
InitEfficiency ==
    /\ StoreIdle
    /\ IndexIdle
    /\ InitPopulation(FarmLayouts, {1}, FALSE)
    /\ InitOrder
    /\ fix_activation_order
    /\ InitWater
    /\ InitAttributes({NaN})
    /\ InitDayIn(LastYear - 1, {SingleCrop}, {SprinklersOnly})

\* the efficient irrigation of the farmers over the years
SpecEfficiency == InitEfficiency /\ [][NextDay]_vars

\* C26: after every evaluation of the adaptation to efficient irrigation, a
\* farmer that did not adopt it in that evaluation has flag 0 and timer -1 if
\* its timer had reached the lifespan or it has no abstraction in any year,
\* and keeps the adaptation it had (flag 1, a running timer) if it has
\* abstracted water in some year and its timer had not reached the lifespan.
C26_EfficiencyResetWhenExpired ==
    Evaluated("adaptation_sprinkler") =>
        \A a \in 1..arrays_n :
            LET before == yearly_pass.efficiency
                after == yearly_pass.efficient
            IN  ~after.SEUT_adaptation_decision[a] =>
                    IF \/ before.time_adapted[a] = lifespan_irrigation
                       \/ ~yearly_pass.has_irrigation_access[a]
                    THEN after.adapted[a] = 0 /\ after.time_adapted[a] = -1
                    ELSE before.adapted[a] = 1 =>
                            after.adapted[a] = 1 /\ after.time_adapted[a] # -1

(***************************************************************************)
(* Claims about the decision to adapt                                      *)
(***************************************************************************)
\* CropFarmers.update_adaptation_decision for the wells (adaptation type 1),
\* called once a year on the farmers as they are, with the utilities of the
\* decision module and a draw per farmer; yearly_pass keeps the farmers
\* before and after the call, the utilities and the draws
update_adaptation_decision_call ==
    /\ current_time.year < LastYear
    /\ \E extra_constraint \in [1..arrays_n -> BOOLEAN] :
       \E SEUT_adapt \in calcEU_adapt(extra_constraint) :
       \E random_values \in [1..arrays_n -> RandomValues] :
          LET ad == WellAdaptation
              SEUT_do_nothing == calcEU_do_nothing(extra_constraint)
          IN  \E decided \in {update_adaptation_decision(
                                 ad, 1, ad.adapted, well_loan_duration,
                                 R(well_annual_cost), SEUT_do_nothing, SEUT_adapt,
                                 random_values)} :
                 /\ adapted' = data_set(adapted, arrays_n, decided.adapted)
                 /\ time_adapted' = data_set(time_adapted, arrays_n, decided.time_adapted)
                 /\ all_loans_annual_cost' =
                       data_set(all_loans_annual_cost, arrays_n,
                                decided.all_loans_annual_cost)
                 /\ loan_tracker' = data_set(loan_tracker, arrays_n, decided.loan_tracker)
                 /\ yearly_pass' = [adaptation |-> ad, adopted |-> decided,
                                    SEUT_do_nothing |-> SEUT_do_nothing,
                                    SEUT_adapt |-> SEUT_adapt,
                                    random_values |-> random_values]
    /\ current_time' = [current_time EXCEPT !.year = @ + 1]
    /\ UNCHANGED <<store_vars, index_vars, farmer_vars, order_vars, water_vars,
                   attribute_vars, step_pc, crop_calendar, crop_calendar_rotation_years,
                   current_crop_calendar_rotation_year_index, adapted_efficiency,
                   time_adapted_efficiency, config>>

NextDecision == update_adaptation_decision_call

\* farms with and without wells before the first decision of the run
InitDecision ==
    /\ StoreIdle
    /\ IndexIdle
    /\ InitPopulation(FarmLayouts, {1}, FALSE)
    /\ InitOrder
    /\ fix_activation_order
    /\ InitWater
    /\ InitAttributes({NaN})
    /\ InitDayIn(LastYear - 2, {SingleCrop}, {WellsOnly})

\* the yearly decisions on wells
SpecDecision == InitDecision /\ [][NextDecision]_vars

\* the farmer holds the adaptation
Holds(has_adapted, i) == PyAt(has_adapted, i) = 1

\* the intention threshold of the claim: the intention factor, 0.3 higher if
\* a neighbour of the social network holds the adaptation, and 1 at most
IntentionThreshold(ad, a) ==
    RMin(R(1),
         IF \E k \in 1..Len(ad.social_network[a]) :
               Holds(ad.adapted, ad.social_network[a][k])
         THEN RAdd(ad.intention_factor[a], Frac(3, 10))
         ELSE ad.intention_factor[a])

\* the farmer gets the adaptation in the decision recorded in yearly_pass
NewlyAdapted(a) ==
    /\ yearly_pass.adaptation.adapted[a] = 0
    /\ yearly_pass.adopted.adapted[a] = 1

\* C25: in a yearly decision the adapted flag of a farmer is newly set only
\* if its utility of adapting is above that of doing nothing and its draw is
\* below its intention threshold (the intention factor, 0.3 higher exactly
\* when a neighbour of its social network holds the adaptation, 1 at most);
\* whatever the draw, a higher utility with a draw at or above the threshold
\* does not set the flag.
C25_AdoptionNeedsUtilityAndIntention ==
    yearly_pass # <<>> =>
        \A a \in 1..arrays_n :
            LET favourable == yearly_pass.SEUT_adapt[a] > yearly_pass.SEUT_do_nothing[a]
                intended == RLess(yearly_pass.random_values[a],
                                  IntentionThreshold(yearly_pass.adaptation, a))
            IN  /\ NewlyAdapted(a) => favourable /\ intended
                /\ (favourable /\ ~intended) =>
                      /\ ~yearly_pass.adopted.SEUT_adaptation_decision[a]
                      /\ yearly_pass.adopted.adapted[a] = yearly_pass.adaptation.adapted[a]

\* a decision in which a farmer with the higher utility of adapting and a
\* draw of 0.7 is held back by its intention factor of 0.5, while another,
\* whose neighbour holds a well, adopts with the same draw against 0.5 + 0.3
C25_Witness ==
    /\ yearly_pass # <<>>
    /\ \E a \in 1..arrays_n :
          /\ yearly_pass.SEUT_adapt[a] > yearly_pass.SEUT_do_nothing[a]
          /\ yearly_pass.random_values[a] = Frac(7, 10)
          /\ yearly_pass.adaptation.intention_factor[a] = Frac(1, 2)
          /\ yearly_pass.adaptation.adapted[a] = 0
          /\ ~(\E k \in 1..Len(yearly_pass.adaptation.social_network[a]) :
                 Holds(yearly_pass.adaptation.adapted,
                       yearly_pass.adaptation.social_network[a][k]))
          /\ yearly_pass.adopted.adapted[a] = 0

\* a farmer adopts on a draw of 0.7 against an intention factor of 0.5
\* because its neighbour holds a well
AdoptsByBoost ==
    /\ yearly_pass # <<>>
    /\ \E a \in 1..arrays_n :
          /\ NewlyAdapted(a)
          /\ yearly_pass.random_values[a] = Frac(7, 10)
          /\ yearly_pass.adaptation.intention_factor[a] = Frac(1, 2)

(***************************************************************************)
(* Claims about the social network under removals                          *)
(***************************************************************************)
\* the row that the farmer of row a had before remove_agent(farmer_idx): the
\* last farmer has moved to the row of the removed one
RowBeforeRemoval(a, farmer_idx, n_before) == IF a = farmer_idx + 1 THEN n_before ELSE a

\* C29: after remove_agent every entry of the neighbour list of a remaining
\* farmer that was the index of a farmer before the removal is an index
\* below n, and if it named another remaining farmer it names the same
\* farmer as before (the farmers are told apart by their locations), also
\* when that farmer has moved to the vacated row.
C29_NeighboursFollowRemoval ==
    (f_op.name = "remove_agent" /\ err = "none") =>
        \A a \in 1..arrays_n :
            LET before == f_pre.social_network[RowBeforeRemoval(a, f_op.idx, f_pre.arrays_n)]
            IN  \A k \in 1..Len(before) :
                    (before[k] >= 0 /\ before[k] < f_pre.n) =>
                        /\ social_network[a][k] < n
                        /\ before[k] # f_op.idx =>
                              /\ social_network[a][k] >= 0
                              /\ locations[social_network[a][k] + 1] =
                                    f_pre.locations[before[k] + 1]
====
